---- MODULE Spec2Model ----
(***************************************************************************)
(* Call-graph reachability of drift, as exposed by the NAPI bindings       *)
(* (crates/drift-napi/src/lib.rs): analyze_reachability,                   *)
(* analyze_inverse_reachability and their store-backed forms.              *)
(*                                                                         *)
(* The bindings convert the caller's graph and options, run the engine of  *)
(* drift_core::reachability and convert its result.  The conversions are   *)
(* modelled from lib.rs.  The engine itself (ReachabilityEngine,           *)
(* SqliteReachabilityEngine) is not part of the sources at hand and is     *)
(* modelled from sections 4.2 - 4.4 of the specification.                  *)
(*                                                                         *)
(* Option<T> is a sequence of length 0 (None) or 1 (Some).  A 64-bit       *)
(* integer that arrives from JavaScript is a tuple of four 16-bit limbs,   *)
(* most significant first, in two's complement; an unsigned 32-bit value   *)
(* is a tuple of two limbs.                                                *)
(*                                                                         *)
(* build_call_graph is modelled with the builder and the Graph Store of    *)
(* drift_core::call_graph, which are not part of the sources at hand       *)
(* either, from sections 4.1 and 4.4 of the specification.  A string whose *)
(* ':' characters matter (a file path, a function name, a function id) is  *)
(* the sequence of its pieces: each ':' and each maximal piece without     *)
(* ':'.                                                                    *)
(***************************************************************************)
EXTENDS Integers, Sequences, FiniteSets, TLC

VARIABLES
    graph_input,   \* the graph a caller hands to an in-memory query
    call,          \* the call of the bindings that was made
    outcome,       \* what the call handed back
    project,       \* the source files under the project root
    store,         \* the rows of the project's Graph Store
    build,         \* the progress of build_call_graph
    observed       \* what a reader of the store got while a build ran

vars == <<graph_input, call, outcome, project, store, build, observed>>

\* ------------------------------------------------------------------------
\* Bounds of the model
\* ------------------------------------------------------------------------

\* total number of call sites in a graph
MaxCalls == 3

\* ------------------------------------------------------------------------
\* Option, sequences, integers
\* ------------------------------------------------------------------------

NoneOpt == <<>>

Some(v) == <<v>>

IsSome(o) == Len(o) = 1

Range(s) == {s[i] : i \in 1..Len(s)}

LimbBase == 2 ^ 16

I64OfNat(n) == <<0, 0, 0, n>>

I64MinusOne == <<LimbBase - 1, LimbBase - 1, LimbBase - 1, LimbBase - 1>>

\* 2^32 + n
I64TwoPow32Plus(n) == <<0, 1, 0, n>>

I64IsNegative(d) == d[1] >= LimbBase \div 2

\* n <= d, for a small natural n and a 64-bit d
NatLeqI64(n, d) ==
    /\ ~I64IsNegative(d)
    /\ (d[1] > 0 \/ d[2] > 0 \/ d[3] > 0 \/ d[4] >= n)

\* `d as u32`: the low 32 bits
AsU32(d) == <<d[3], d[4]>>

\* depth > max_depth, for the engine's depth counter and a u32 bound
DepthExceeds(depth, bound) == bound[1] = 0 /\ depth > bound[2]

\* `x as i64` of a u32: zero extension keeps the value
U32AsI64(n) == n

\* ------------------------------------------------------------------------
\* The caller's graph: JsCallGraphInput
\* ------------------------------------------------------------------------

FunctionIds == {"main", "handler", "queryUsers"}

\* the order of graph_input.functions
FunctionOrder == <<"main", "handler", "queryUsers">>

\* an id that names no function of the graph
MissingId == "ghost"

UsersRead == [table |-> "users", operation |-> "read", fields |-> <<"email">>]

OrdersWrite == [table |-> "orders", operation |-> "write", fields |-> <<"total">>]

\* an operation string the bindings do not know
OrdersUpsert == [table |-> "orders", operation |-> "upsert", fields |-> <<"total">>]

ResolvedCall(t) == [resolved |-> TRUE, resolved_candidates |-> <<t>>]

UnresolvedCall(cs) == [resolved |-> FALSE, resolved_candidates |-> cs]

\* the two functions other than f, in graph order: the same-named candidates
\* of an ambiguous call made by f
OthersOf(f) == SelectSeq(FunctionOrder, LAMBDA g : g # f)

\* the call sites function f may hold
CallOptions(f) ==
    {ResolvedCall(t) : t \in FunctionIds}
        \cup {UnresolvedCall(<<>>), UnresolvedCall(OthersOf(f))}

CallLists(f, n) == [1..n -> CallOptions(f)]

CallLengths ==
    {l \in [FunctionIds -> 0..MaxCalls] :
        l["main"] + l["handler"] + l["queryUsers"] <= MaxCalls}

\* every assignment of call lists with at most MaxCalls call sites in all
CallLayouts ==
    UNION {
        {[main |-> a, handler |-> b, queryUsers |-> c] :
            a \in CallLists("main", l["main"]),
            b \in CallLists("handler", l["handler"]),
            c \in CallLists("queryUsers", l["queryUsers"])} :
        l \in CallLengths}

\* the number of call sites of a layout
CallCount(calls) == Len(calls.main) + Len(calls.handler) + Len(calls.queryUsers)

\* where the data access points sit: in queryUsers alone, or in every
\* function
ScenarioAccess == [main |-> <<>>, handler |-> <<>>, queryUsers |-> <<UsersRead>>]

FullAccess ==
    [main |-> <<OrdersWrite>>, handler |-> <<UsersRead>>,
     queryUsers |-> <<UsersRead, OrdersUpsert>>]

JsFunction(id, calls, data_access, is_entry_point) ==
    [id |-> id, calls |-> calls, data_access |-> data_access,
     is_entry_point |-> is_entry_point]

\* the derived indices of a function list
EntryPointsOf(fs) ==
    LET s == SelectSeq(fs, LAMBDA f : f.is_entry_point)
    IN  [i \in 1..Len(s) |-> s[i].id]

DataAccessorsOf(fs) ==
    LET s == SelectSeq(fs, LAMBDA f : f.data_access # <<>>)
    IN  [i \in 1..Len(s) |-> s[i].id]

JsGraph(calls, access, entries) ==
    LET fs == [i \in 1..Len(FunctionOrder) |->
                 JsFunction(FunctionOrder[i], calls[FunctionOrder[i]],
                            access[FunctionOrder[i]], FunctionOrder[i] \in entries)]
    IN  [functions |-> fs,
         entry_points |-> EntryPointsOf(fs),
         data_accessors |-> DataAccessorsOf(fs)]

\* ------------------------------------------------------------------------
\* Conversion of the caller's graph and options (lib.rs)
\* ------------------------------------------------------------------------

\* match a.operation.as_str(): anything but "write" and "delete" is a read
DataOperationOf(operation) ==
    IF operation = "write" THEN "Write"
    ELSE IF operation = "delete" THEN "Delete"
    ELSE "Read"

\* the string the result carries for an engine operation
OperationString(operation) ==
    IF operation = "Write" THEN "write"
    ELSE IF operation = "Delete" THEN "delete"
    ELSE "read"

ReachDataAccessPoint(a) ==
    [table |-> a.table, operation |-> DataOperationOf(a.operation),
     fields |-> a.fields]

\* a mutation of ReachCallSite: an edge counts as resolved when it has
\* candidates
ReachCallSiteByCandidates(c) ==
    [resolved |-> c.resolved_candidates # <<>>,
     resolved_candidates |-> c.resolved_candidates]

ReachCallSite(c) ==
    [resolved |-> c.resolved, resolved_candidates |-> c.resolved_candidates]

\* a mutation of FunctionNode: the call sites are not carried over
FunctionNodeNoCalls(func) ==
    [id |-> func.id,
     calls |-> <<>>,
     data_access |-> [i \in 1..Len(func.data_access) |->
                        ReachDataAccessPoint(func.data_access[i])],
     is_entry_point |-> func.is_entry_point]

\* a mutation of FunctionNode: the data access of a function is not
\* carried over
FunctionNodeNoAccess(func) ==
    [id |-> func.id,
     calls |-> [i \in 1..Len(func.calls) |-> ReachCallSite(func.calls[i])],
     data_access |-> <<>>,
     is_entry_point |-> func.is_entry_point]

FunctionNode(func) ==
    [id |-> func.id,
     calls |-> [i \in 1..Len(func.calls) |-> ReachCallSite(func.calls[i])],
     data_access |-> [i \in 1..Len(func.data_access) |->
                        ReachDataAccessPoint(func.data_access[i])],
     is_entry_point |-> func.is_entry_point]

\* graph.functions.insert(func.id, ..) for every function of the input, in
\* order: a later function replaces an earlier one of the same id
InsertFunctions(fs) ==
    [id \in {fs[i].id : i \in 1..Len(fs)} |->
        LET last == CHOOSE i \in 1..Len(fs) :
                        /\ fs[i].id = id
                        /\ \A j \in 1..Len(fs) : fs[j].id = id => j <= i
        IN  FunctionNode(fs[last])]

ReachCallGraph(input) ==
    [functions |-> InsertFunctions(input.functions),
     entry_points |-> input.entry_points,
     data_accessors |-> input.data_accessors]

UnwrapOr(o, default) == IF IsSome(o) THEN o[1] ELSE default

\* a mutation of ReachabilityOptions: tables is not passed on
ReachabilityOptionsNoTables(options) ==
    [max_depth |-> IF IsSome(options.max_depth)
                   THEN Some(AsU32(options.max_depth[1])) ELSE NoneOpt,
     sensitive_only |-> UnwrapOr(options.sensitive_only, FALSE),
     tables |-> <<>>,
     include_unresolved |-> UnwrapOr(options.include_unresolved, FALSE)]

ReachabilityOptions(options) ==
    [max_depth |-> IF IsSome(options.max_depth)
                   THEN Some(AsU32(options.max_depth[1])) ELSE NoneOpt,
     sensitive_only |-> UnwrapOr(options.sensitive_only, FALSE),
     tables |-> UnwrapOr(options.tables, <<>>),
     include_unresolved |-> UnwrapOr(options.include_unresolved, FALSE)]

\* ------------------------------------------------------------------------
\* Forward reachability engine (specification, section 4.2)
\* ------------------------------------------------------------------------

\* the classification of a field by the sensitivity detector
SensitivityType(field) == IF field = "email" THEN "Pii" ELSE "Unknown"

IsSensitive(a) == \E i \in 1..Len(a.fields) : SensitivityType(a.fields[i]) # "Unknown"

PathNode(id) == [function_id |-> id]

\* the tables and sensitive_only filters
AccessPasses(a, options) ==
    /\ options.tables = <<>> \/ a.table \in Range(options.tables)
    /\ options.sensitive_only => IsSensitive(a)

\* the reachable-access results of a visited function
EmitAccess(func, path, depth, options) ==
    LET kept == SelectSeq(func.data_access, LAMBDA a : AccessPasses(a, options))
    IN  [i \in 1..Len(kept) |-> [access |-> kept[i], path |-> path, depth |-> depth]]

RECURSIVE Concat(_)
Concat(ss) == IF ss = <<>> THEN <<>> ELSE Head(ss) \o Concat(Tail(ss))

\* the functions a call edge leads to: the target of a resolved edge; an
\* unresolved edge is a dead end whatever the options
CallTargets(c, options) == IF c.resolved THEN c.resolved_candidates ELSE <<>>

\* the queue items for the calls of a visited function, in call order
Expand(func, path, depth, options) ==
    Concat([i \in 1..Len(func.calls) |->
              LET ts == CallTargets(func.calls[i], options)
              IN  [j \in 1..Len(ts) |->
                     [id |-> ts[j], path |-> path, depth |-> depth + 1]]])

\* the dead-end markers of a visited function: one per unresolved call edge,
\* when include_unresolved is set
Markers(func, options) ==
    IF options.include_unresolved
    THEN LET ix == SelectSeq([i \in 1..Len(func.calls) |-> i],
                             LAMBDA i : ~func.calls[i].resolved)
         IN  [k \in 1..Len(ix) |-> [caller |-> func.id, call |-> ix[k]]]
    ELSE <<>>

\* the (field, table) pairs of the sensitive fields a function accesses
SensitivePairs(func, options) ==
    LET kept == SelectSeq(func.data_access, LAMBDA a : AccessPasses(a, options))
    IN  Concat([i \in 1..Len(kept) |->
                  LET fs == SelectSeq(kept[i].fields,
                                      LAMBDA f : SensitivityType(f) # "Unknown")
                  IN  [j \in 1..Len(fs) |-> [field |-> fs[j], table |-> kept[i].table]]])

AddSensitive(entries, p, path) ==
    IF \E i \in 1..Len(entries) :
            entries[i].field = p.field /\ entries[i].table = Some(p.table)
    THEN LET i == CHOOSE k \in 1..Len(entries) :
                     entries[k].field = p.field /\ entries[k].table = Some(p.table)
         IN  [entries EXCEPT ![i] =
                [field |-> entries[i].field,
                 table |-> entries[i].table,
                 sensitivity_type |-> entries[i].sensitivity_type,
                 paths |-> IF path \in Range(entries[i].paths)
                           THEN entries[i].paths
                           ELSE Append(entries[i].paths, path),
                 access_count |-> IF path \in Range(entries[i].paths)
                                  THEN entries[i].access_count
                                  ELSE entries[i].access_count + 1]]
    ELSE Append(entries,
                [field |-> p.field, table |-> Some(p.table),
                 sensitivity_type |-> SensitivityType(p.field),
                 paths |-> <<path>>, access_count |-> 1])

RECURSIVE AggregateSensitive(_, _, _)
AggregateSensitive(entries, pairs, path) ==
    IF pairs = <<>> THEN entries
    ELSE AggregateSensitive(AddSensitive(entries, Head(pairs), path), Tail(pairs), path)

Max(a, b) == IF a >= b THEN a ELSE b

\* the traversal before its first iteration: the origin, at depth 0
StartTraversal(function_id) ==
    [queue |-> <<[id |-> function_id, path |-> <<>>, depth |-> 0]>>,
     visited |-> {},
     reachable_access |-> <<>>,
     sensitive_fields |-> <<>>,
     unresolved |-> <<>>,
     max_depth |-> 0,
     iterations |-> 0]

\* a function is dropped when it lies beyond the depth bound
BeyondBound(depth, options) ==
    IsSome(options.max_depth) /\ DepthExceeds(depth, options.max_depth[1])

AlreadyVisited(id, visited) == id \in visited

\* one iteration of the breadth-first loop: take the first queue item; drop
\* it when it lies beyond the depth bound or names no function; count its
\* path for the sensitive fields of the function; and, unless the function
\* was visited before, visit it: emit its accesses, record its dead-end
\* markers and queue its call targets
TraversalStep(graph, options, st) ==
    LET item == Head(st.queue)
        rest == [st EXCEPT !.queue = Tail(st.queue), !.iterations = st.iterations + 1]
    IN  IF BeyondBound(item.depth, options) THEN rest
        ELSE IF item.id \notin DOMAIN graph.functions THEN rest
        ELSE LET func == graph.functions[item.id]
                 path == Append(item.path, PathNode(func.id))
                 seen == [rest EXCEPT !.sensitive_fields =
                            AggregateSensitive(rest.sensitive_fields,
                                               SensitivePairs(func, options), path)]
             IN  IF AlreadyVisited(item.id, st.visited) THEN seen
                 ELSE [seen EXCEPT
                         !.visited = st.visited \cup {item.id},
                         !.reachable_access =
                             st.reachable_access \o EmitAccess(func, path, item.depth, options),
                         !.unresolved = st.unresolved \o Markers(func, options),
                         !.max_depth = Max(st.max_depth, item.depth),
                         !.queue = rest.queue \o Expand(func, path, item.depth, options)]

RECURSIVE SumSeq(_)
SumSeq(s) == IF s = <<>> THEN 0 ELSE Head(s) + SumSeq(Tail(s))

\* the number of call candidates of a function
CandidateCount(func) ==
    SumSeq([i \in 1..Len(func.calls) |-> Len(func.calls[i].resolved_candidates)])

\* an iteration count no traversal that visits each function once exceeds:
\* the origin and one item per call candidate of each function
IterationBound(graph) ==
    LET ids == DOMAIN graph.functions
        RECURSIVE Total(_)
        Total(S) == IF S = {} THEN 0
                    ELSE LET id == CHOOSE x \in S : TRUE
                         IN  CandidateCount(graph.functions[id]) + Total(S \ {id})
    IN  1 + Total(ids)

\* the loop, run until the queue is empty or the fuel is used up
RECURSIVE RunTraversal(_, _, _, _)
RunTraversal(graph, options, st, fuel) ==
    IF st.queue = <<>> \/ fuel = 0 THEN st
    ELSE RunTraversal(graph, options, TraversalStep(graph, options, st), fuel - 1)

\* the tables of a list of reachable accesses, each once, in order
TablesOf(accesses) ==
    LET first == SelectSeq([i \in 1..Len(accesses) |-> i],
                   LAMBDA i : \A j \in 1..(i - 1) :
                                 accesses[j].access.table # accesses[i].access.table)
    IN  [k \in 1..Len(first) |-> accesses[first[k]].access.table]

\* ReachabilityEngine::get_reachable_data_from_function; returned is FALSE
\* when the loop is still running after IterationBound iterations
GetReachableDataFromFunction(graph, function_id, options) ==
    LET st == RunTraversal(graph, options, StartTraversal(function_id),
                           IterationBound(graph))
    IN  [returned |-> st.queue = <<>>,
         origin |-> [function_id |-> Some(function_id)],
         reachable_access |-> st.reachable_access,
         tables |-> TablesOf(st.reachable_access),
         sensitive_fields |-> st.sensitive_fields,
         unresolved |-> st.unresolved,
         max_depth |-> st.max_depth,
         functions_traversed |-> Cardinality(st.visited)]

\* ------------------------------------------------------------------------
\* analyze_reachability (lib.rs)
\* ------------------------------------------------------------------------

JsCallPath(path) == [i \in 1..Len(path) |-> [function_id |-> path[i].function_id]]

\* a mutation of JsReachableDataAccess: the depth is taken from the length
\* of the path
JsReachableDataAccessPathLen(a) ==
    [table |-> a.access.table,
     operation |-> OperationString(a.access.operation),
     fields |-> a.access.fields,
     path |-> JsCallPath(a.path),
     depth |-> Len(a.path)]

JsReachableDataAccess(a) ==
    [table |-> a.access.table,
     operation |-> OperationString(a.access.operation),
     fields |-> a.access.fields,
     path |-> JsCallPath(a.path),
     depth |-> U32AsI64(a.depth)]

\* format!("{:?}", sensitivity_type).to_lowercase()
SensitivityString(t) == IF t = "Pii" THEN "pii" ELSE "unknown"

\* a mutation of JsSensitiveFieldAccess: only the first path is handed over
JsSensitiveFieldAccessFirstPath(e) ==
    [field |-> e.field,
     table |-> e.table,
     sensitivity_type |-> SensitivityString(e.sensitivity_type),
     paths |-> <<JsCallPath(e.paths[1])>>,
     access_count |-> e.access_count]

JsSensitiveFieldAccess(e) ==
    [field |-> e.field,
     table |-> e.table,
     sensitivity_type |-> SensitivityString(e.sensitivity_type),
     paths |-> [i \in 1..Len(e.paths) |-> JsCallPath(e.paths[i])],
     access_count |-> e.access_count]

\* a mutation of JsReachabilityResult: functions_traversed is taken from
\* the number of accesses
JsReachabilityResultCountsAccess(result) ==
    [origin |-> result.origin,
     reachable_access |-> [i \in 1..Len(result.reachable_access) |->
                             JsReachableDataAccess(result.reachable_access[i])],
     tables |-> result.tables,
     sensitive_fields |-> [i \in 1..Len(result.sensitive_fields) |->
                             JsSensitiveFieldAccess(result.sensitive_fields[i])],
     max_depth |-> U32AsI64(result.max_depth),
     functions_traversed |-> Len(result.reachable_access)]

\* the JsReachabilityResult built from the engine's result
JsReachabilityResult(result) ==
    [origin |-> result.origin,
     reachable_access |-> [i \in 1..Len(result.reachable_access) |->
                             JsReachableDataAccess(result.reachable_access[i])],
     tables |-> result.tables,
     sensitive_fields |-> [i \in 1..Len(result.sensitive_fields) |->
                             JsSensitiveFieldAccess(result.sensitive_fields[i])],
     max_depth |-> U32AsI64(result.max_depth),
     functions_traversed |-> result.functions_traversed]

\* what a call hands back: Ok(value), Err(reason), or no return at all
Ok(value) == [status |-> "Ok", value |-> value]

Err(reason) == [status |-> "Err", reason |-> reason]

NoReturn == [status |-> "NoReturn"]

\* the whole of analyze_reachability as a function of its arguments
AnalyzeReachabilityOutcome(input, function_id, options) ==
    LET graph == ReachCallGraph(input)
        rust_options == ReachabilityOptions(options)
        result == GetReachableDataFromFunction(graph, function_id, rust_options)
    IN  IF result.returned THEN Ok(JsReachabilityResult(result)) ELSE NoReturn

\* ------------------------------------------------------------------------
\* analyze_reachability_sqlite (lib.rs) over the store of a project root
\* ------------------------------------------------------------------------

\* project roots: one never built, one whose store cannot be read (corrupt,
\* or of another schema), one whose store holds no function, one whose
\* store holds the graph of graph_input
RootDirs == {"/never-built", "/corrupt", "/empty", "/built"}

\* the errors of the store when it is opened
StoreMissing == "store missing"

StoreUnreadable == "store corrupt or incompatible"

\* SqliteReachabilityEngine::from_project_root: the engine over the store
\* of the root, or the store's error when the store cannot be opened
FromProjectRoot(root_dir, input) ==
    IF root_dir = "/never-built" THEN Err(StoreMissing)
    ELSE IF root_dir = "/corrupt" THEN Err(StoreUnreadable)
    ELSE IF root_dir = "/empty"
         THEN Ok([functions |-> <<>>, entry_points |-> <<>>, data_accessors |-> <<>>])
         ELSE Ok(ReachCallGraph(input))

\* SqliteReachabilityEngine::is_available: the store holds a function
IsAvailable(graph) == DOMAIN graph.functions # {}

\* the guidance both errors of the store-backed queries end with
BuildFirst == "Run build_call_graph() first."

\* format!("Failed to open call graph database: {}. Run build_call_graph()
\* first.", e): a message is the sequence of its parts
OpenFailed(e) == <<"Failed to open call graph database: ", e, ". ", BuildFirst>>

StoreEmpty == <<"Call graph database is empty. ", BuildFirst>>

\* a mutation of AnalyzeReachabilitySqliteOutcome: the options of the caller
\* are not converted, the engine runs with the defaults
AnalyzeReachabilitySqliteOutcomeDefaults(input, root_dir, function_id, options) ==
    LET engine == FromProjectRoot(root_dir, input)
    IN  IF engine.status = "Err" THEN Err(OpenFailed(engine.reason))
        ELSE IF ~IsAvailable(engine.value) THEN Err(StoreEmpty)
        ELSE LET rust_options == [max_depth |-> NoneOpt, sensitive_only |-> FALSE,
                                  tables |-> <<>>, include_unresolved |-> FALSE]
                 result == GetReachableDataFromFunction(engine.value, function_id,
                                                        rust_options)
             IN  IF result.returned THEN Ok(JsReachabilityResult(result))
                 ELSE NoReturn

\* the whole of analyze_reachability_sqlite as a function of its arguments
AnalyzeReachabilitySqliteOutcome(input, root_dir, function_id, options) ==
    LET engine == FromProjectRoot(root_dir, input)
    IN  IF engine.status = "Err" THEN Err(OpenFailed(engine.reason))
        ELSE IF ~IsAvailable(engine.value) THEN Err(StoreEmpty)
        ELSE LET rust_options == ReachabilityOptions(options)
                 result == GetReachableDataFromFunction(engine.value, function_id,
                                                        rust_options)
             IN  IF result.returned THEN Ok(JsReachabilityResult(result))
                 ELSE NoReturn

\* ------------------------------------------------------------------------
\* Inverse reachability engine (specification, section 4.3)
\* ------------------------------------------------------------------------

\* the options analyze_inverse_reachability builds from its arguments
InverseReachabilityOptions(table, field, max_depth) ==
    [table |-> table,
     field |-> field,
     max_depth |-> IF IsSome(max_depth) THEN Some(AsU32(max_depth[1])) ELSE NoneOpt]

\* the ids of the graph's functions, in the order the engine scans them
KeyOrder(graph) == SelectSeq(FunctionOrder, LAMBDA id : id \in DOMAIN graph.functions)

\* an access point matches the target table and, when given, the field
AccessMatches(a, options) ==
    /\ a.table = options.table
    /\ IsSome(options.field) => options.field[1] \in Range(a.fields)

\* caller has a resolved call edge to the function id
CallsResolved(caller, id) ==
    \E i \in 1..Len(caller.calls) :
        caller.calls[i].resolved /\ id \in Range(caller.calls[i].resolved_candidates)

\* the reverse adjacency of one callee: its callers, each once
Callers(graph, id) ==
    SelectSeq(KeyOrder(graph), LAMBDA c : CallsResolved(graph.functions[c], id))

\* the backward walk stops at an entry point
ReachedEntryPoint(graph, id) == id \in Range(graph.entry_points)

\* the hops of a backward walk are exhausted
HopsExhausted(hops, options) ==
    IsSome(options.max_depth) /\ DepthExceeds(hops, options.max_depth[1])

\* the backward walks from the first function of path (a path of ids in
\* forward order) to entry points, as forward paths: callers, their callers
\* and so on, no function twice on a path, until an entry point is reached
\* or the hops are exhausted.  An empty path in the result tells that the
\* fuel ran out.
RECURSIVE PathsBack(_, _, _, _)
PathsBack(graph, options, path, fuel) ==
    IF fuel = 0 THEN << <<>> >>
    ELSE IF ReachedEntryPoint(graph, path[1]) THEN <<path>>
    ELSE IF HopsExhausted(Len(path), options) THEN <<>>
    ELSE LET cs == SelectSeq(Callers(graph, path[1]), LAMBDA c : c \notin Range(path))
         IN  Concat([i \in 1..Len(cs) |->
                       PathsBack(graph, options, <<cs[i]>> \o path, fuel - 1)])

\* a sequence without its repeated elements
Dedup(s) ==
    LET first == SelectSeq([i \in 1..Len(s) |-> i],
                           LAMBDA i : \A j \in 1..(i - 1) : s[j] # s[i])
    IN  [k \in 1..Len(first) |-> s[first[k]]]

\* the access paths of one accessing function
AccessPathsOf(graph, options, id) ==
    LET func == graph.functions[id]
        matching == SelectSeq(func.data_access, LAMBDA a : AccessMatches(a, options))
        paths == PathsBack(graph, options, <<id>>, Cardinality(DOMAIN graph.functions) + 1)
    IN  Concat([i \in 1..Len(matching) |->
                  [j \in 1..Len(paths) |->
                     [entry_point |-> IF paths[j] = <<>> THEN "" ELSE paths[j][1],
                      path |-> [k \in 1..Len(paths[j]) |-> PathNode(paths[j][k])],
                      access_point |-> matching[i]]]])

\* ReachabilityEngine::get_code_paths_to_data
GetCodePathsToData(graph, options) ==
    LET accessors == SelectSeq(KeyOrder(graph),
                       LAMBDA id : \E i \in 1..Len(graph.functions[id].data_access) :
                                      AccessMatches(graph.functions[id].data_access[i], options))
        found == Concat([i \in 1..Len(accessors) |->
                           AccessPathsOf(graph, options, accessors[i])])
        access_paths == Dedup(found)
    IN  [returned |-> \A i \in 1..Len(found) : found[i].path # <<>>,
         target |-> [table |-> options.table, field |-> options.field],
         access_paths |-> access_paths,
         entry_points |-> Dedup([i \in 1..Len(access_paths) |-> access_paths[i].entry_point]),
         total_accessors |-> Len(accessors)]

\* ------------------------------------------------------------------------
\* analyze_inverse_reachability and analyze_inverse_reachability_sqlite
\* ------------------------------------------------------------------------

\* a mutation of JsInverseAccessPath: the path is handed over backwards
JsInverseAccessPathReversed(a) ==
    [entry_point |-> a.entry_point,
     path |-> [i \in 1..Len(a.path) |->
                 [function_id |-> a.path[Len(a.path) + 1 - i].function_id]],
     access_table |-> a.access_point.table,
     access_operation |-> OperationString(a.access_point.operation),
     access_fields |-> a.access_point.fields]

JsInverseAccessPath(a) ==
    [entry_point |-> a.entry_point,
     path |-> JsCallPath(a.path),
     access_table |-> a.access_point.table,
     access_operation |-> OperationString(a.access_point.operation),
     access_fields |-> a.access_point.fields]

\* a mutation of JsInverseReachabilityResult: total_accessors is taken from
\* the number of access paths
JsInverseReachabilityResultCountsPaths(result) ==
    [target_table |-> result.target.table,
     target_field |-> result.target.field,
     access_paths |-> [i \in 1..Len(result.access_paths) |->
                         JsInverseAccessPath(result.access_paths[i])],
     entry_points |-> result.entry_points,
     total_accessors |-> Len(result.access_paths)]

JsInverseReachabilityResult(result) ==
    [target_table |-> result.target.table,
     target_field |-> result.target.field,
     access_paths |-> [i \in 1..Len(result.access_paths) |->
                         JsInverseAccessPath(result.access_paths[i])],
     entry_points |-> result.entry_points,
     total_accessors |-> result.total_accessors]

\* the whole of analyze_inverse_reachability as a function of its arguments
AnalyzeInverseReachabilityOutcome(input, table, field, max_depth) ==
    LET graph == ReachCallGraph(input)
        options == InverseReachabilityOptions(table, field, max_depth)
        result == GetCodePathsToData(graph, options)
    IN  IF result.returned THEN Ok(JsInverseReachabilityResult(result)) ELSE NoReturn

\* the whole of analyze_inverse_reachability_sqlite
AnalyzeInverseReachabilitySqliteOutcome(input, root_dir, table, field, max_depth) ==
    LET engine == FromProjectRoot(root_dir, input)
    IN  IF engine.status = "Err" THEN Err(OpenFailed(engine.reason))
        ELSE IF ~IsAvailable(engine.value) THEN Err(StoreEmpty)
        ELSE LET options == InverseReachabilityOptions(table, field, max_depth)
                 result == GetCodePathsToData(engine.value, options)
             IN  IF result.returned THEN Ok(JsInverseReachabilityResult(result))
                 ELSE NoReturn

\* ------------------------------------------------------------------------
\* Inputs
\* ------------------------------------------------------------------------

\* the largest small depth bound a caller passes
MaxDepthArg == 1

\* max_depth as JavaScript passes it: absent, small, negative, beyond 32 bits
MaxDepthArgs ==
    {NoneOpt, Some(I64MinusOne), Some(I64TwoPow32Plus(1))}
        \cup {Some(I64OfNat(d)) : d \in 0..MaxDepthArg}

OptionalBools == {NoneOpt, Some(TRUE), Some(FALSE)}

TableArgs == {NoneOpt, Some(<<"users">>), Some(<<"orders", "users">>)}

\* options that vary the depth bound and the treatment of unresolved edges
TraversalOptions ==
    [max_depth : MaxDepthArgs, sensitive_only : {NoneOpt},
     tables : {NoneOpt}, include_unresolved : OptionalBools]

\* options that vary the filters
FilterOptions ==
    [max_depth : {NoneOpt}, sensitive_only : {NoneOpt, Some(TRUE)},
     tables : TableArgs, include_unresolved : {NoneOpt}]

DefaultOptions ==
    [max_depth |-> NoneOpt, sensitive_only |-> NoneOpt,
     tables |-> NoneOpt, include_unresolved |-> NoneOpt]

\* the graphs are closed under renaming of functions, so the origin of a
\* forward query is main, or an id the graph does not hold
ForwardQueries ==
    {[function_id |-> "main", options |-> o] : o \in TraversalOptions \cup FilterOptions}
        \cup {[function_id |-> MissingId, options |-> DefaultOptions]}

StoreForwardQueries ==
    {[root_dir |-> r, function_id |-> "main", options |-> DefaultOptions] : r \in RootDirs}
        \cup {[root_dir |-> "/built", function_id |-> MissingId, options |-> DefaultOptions]}

InverseQueries ==
    {[table |-> "users", field |-> f, max_depth |-> d] :
        f \in {NoneOpt, Some("email")}, d \in MaxDepthArgs}
        \cup {[table |-> "orders", field |-> NoneOpt, max_depth |-> d] : d \in MaxDepthArgs}
        \cup {[table |-> "users", field |-> Some("total"), max_depth |-> NoneOpt],
              [table |-> "orders", field |-> Some("total"), max_depth |-> NoneOpt]}

StoreInverseQueries ==
    {[root_dir |-> r, table |-> "users", field |-> NoneOpt, max_depth |-> NoneOpt] :
        r \in RootDirs}

\* graphs for forward queries, with the given entry points: every layout
\* with access in every function, and the layouts of fewer than MaxCalls call
\* sites with access in queryUsers alone
GraphInputs(entries) ==
    {JsGraph(calls, FullAccess, entries) : calls \in CallLayouts}
        \cup {JsGraph(calls, ScenarioAccess, entries) :
                 calls \in {c \in CallLayouts : CallCount(c) < MaxCalls}}

EntryPointSets == {{}, {"main"}, {"main", "handler"}, {"handler", "queryUsers"}}

\* graphs for inverse queries: the entry points vary
InverseGraphInputs(access) ==
    {JsGraph(calls, access, entries) :
        calls \in CallLayouts, entries \in EntryPointSets}

\* ------------------------------------------------------------------------
\* The state machine: a graph, then one call of the bindings on it
\* ------------------------------------------------------------------------

NoCall == [op |-> "none"]

\* no project is at hand, nothing is stored, no build runs
NoProject == <<>>

EmptyStore == {}

BuildIdle == [phase |-> "idle"]

\* no reader has read the store
NoRead == [op |-> "none"]

Init ==
    /\ graph_input \in GraphInputs({"main"})
    /\ call = NoCall
    /\ outcome = NoReturn
    /\ project = NoProject
    /\ store = EmptyStore
    /\ build = BuildIdle
    /\ observed = NoRead

InitInverse ==
    /\ graph_input \in InverseGraphInputs(FullAccess)
    /\ call = NoCall
    /\ outcome = NoReturn
    /\ project = NoProject
    /\ store = EmptyStore
    /\ build = BuildIdle
    /\ observed = NoRead

AnalyzeReachability(function_id, options) ==
    /\ call = NoCall
    /\ call' = [op |-> "analyze_reachability", function_id |-> function_id,
                options |-> options]
    /\ outcome' = AnalyzeReachabilityOutcome(graph_input, function_id, options)
    /\ UNCHANGED <<graph_input, project, store, build, observed>>

AnalyzeReachabilitySqlite(root_dir, function_id, options) ==
    /\ call = NoCall
    /\ call' = [op |-> "analyze_reachability_sqlite", root_dir |-> root_dir,
                function_id |-> function_id, options |-> options]
    /\ outcome' = AnalyzeReachabilitySqliteOutcome(graph_input, root_dir,
                                                   function_id, options)
    /\ UNCHANGED <<graph_input, project, store, build, observed>>

AnalyzeInverseReachability(table, field, max_depth) ==
    /\ call = NoCall
    /\ call' = [op |-> "analyze_inverse_reachability", table |-> table,
                field |-> field, max_depth |-> max_depth]
    /\ outcome' = AnalyzeInverseReachabilityOutcome(graph_input, table, field, max_depth)
    /\ UNCHANGED <<graph_input, project, store, build, observed>>

AnalyzeInverseReachabilitySqlite(root_dir, table, field, max_depth) ==
    /\ call = NoCall
    /\ call' = [op |-> "analyze_inverse_reachability_sqlite", root_dir |-> root_dir,
                table |-> table, field |-> field, max_depth |-> max_depth]
    /\ outcome' = AnalyzeInverseReachabilitySqliteOutcome(graph_input, root_dir,
                                                          table, field, max_depth)
    /\ UNCHANGED <<graph_input, project, store, build, observed>>

Next ==
    \/ \E q \in ForwardQueries : AnalyzeReachability(q.function_id, q.options)
    \/ \E q \in StoreForwardQueries :
           AnalyzeReachabilitySqlite(q.root_dir, q.function_id, q.options)

NextInverse ==
    \/ \E q \in InverseQueries :
           AnalyzeInverseReachability(q.table, q.field, q.max_depth)
    \/ \E q \in StoreInverseQueries :
           AnalyzeInverseReachabilitySqlite(q.root_dir, q.table, q.field, q.max_depth)

\* forward queries
Spec == Init /\ [][Next]_vars

\* inverse queries
SpecInverse == InitInverse /\ [][NextInverse]_vars

\* ------------------------------------------------------------------------
\* The graph as the caller wrote it, for stating the properties
\* ------------------------------------------------------------------------

InputIds == {graph_input.functions[i].id : i \in 1..Len(graph_input.functions)}

InputFunction(id) ==
    graph_input.functions[CHOOSE i \in 1..Len(graph_input.functions) :
                             graph_input.functions[i].id = id]

\* u has a resolved call edge to the function v
ResolvedEdge(u, v) ==
    /\ u \in InputIds
    /\ v \in InputIds
    /\ LET calls == InputFunction(u).calls
       IN  \E i \in 1..Len(calls) :
               /\ calls[i].resolved
               /\ v \in Range(calls[i].resolved_candidates)

\* the functions at most k resolved edges from o
RECURSIVE Within(_, _)
Within(o, k) ==
    IF k = 0 THEN {o} \cap InputIds
    ELSE LET B == Within(o, k - 1)
         IN  B \cup {v \in InputIds : \E u \in B : ResolvedEdge(u, v)}

Reachable(o) == Within(o, Cardinality(InputIds))

\* the least number of resolved edges from o to f, for f reachable from o
Distance(o, f) ==
    CHOOSE d \in 0..Cardinality(InputIds) :
        /\ f \in Within(o, d)
        /\ d = 0 \/ f \notin Within(o, d - 1)

\* a path of nodes is a chain of resolved call edges
IsResolvedChain(path) ==
    \A i \in 1..(Len(path) - 1) :
        ResolvedEdge(path[i].function_id, path[i + 1].function_id)

LastNode(path) == path[Len(path)].function_id

\* the state after a forward query that opened a graph
ForwardAnswered ==
    \/ call.op = "analyze_reachability"
    \/ call.op = "analyze_reachability_sqlite" /\ call.root_dir = "/built"

\* ------------------------------------------------------------------------
\* C1
\* ------------------------------------------------------------------------

\* C1: forward reachability from an existing origin with max_depth absent
\* returns, on every graph, cyclic or not, and functions_traversed is at
\* most the number of functions of the graph.
TraversalTerminates ==
    (ForwardAnswered /\ call.function_id \in InputIds /\ call.options.max_depth = NoneOpt)
        => /\ outcome.status = "Ok"
           /\ outcome.value.functions_traversed <= Cardinality(InputIds)

\* main and handler call each other, and main calls itself; the query has
\* returned with both traversed
TraversalTerminatesWitness ==
    /\ call.op = "analyze_reachability"
    /\ call.function_id = "main"
    /\ call.options.max_depth = NoneOpt
    /\ ResolvedEdge("main", "handler")
    /\ ResolvedEdge("handler", "main")
    /\ ResolvedEdge("main", "main")
    /\ outcome.status = "Ok"
    /\ outcome.value.functions_traversed = 2

\* ------------------------------------------------------------------------
\* C2
\* ------------------------------------------------------------------------

\* the list s with its elements i and i + 1 exchanged
SwapAt(s, i) ==
    [k \in 1..Len(s) |-> IF k = i THEN s[i + 1] ELSE IF k = i + 1 THEN s[i] ELSE s[k]]

\* the graphs that differ from g by the exchange of two neighbouring calls
\* of one function.  Every order of a calls list is reached by such
\* exchanges, and the graphs of GraphInputs are closed under them.
Reorderings(g) ==
    {[g EXCEPT !.functions[n].calls = SwapAt(g.functions[n].calls, i)] :
        <<n, i>> \in {<<m, j>> \in (1..Len(g.functions)) \X (1..MaxCalls) :
                         /\ j < Len(g.functions[m].calls)
                         /\ g.functions[m].calls[j] # g.functions[m].calls[j + 1]}}

\* the functions a result reports, each with the depth it reports
RecordedDepths(value) ==
    {<<LastNode(value.reachable_access[i].path), value.reachable_access[i].depth>> :
        i \in 1..Len(value.reachable_access)}

\* C2: the depth recorded for a function is the least number of resolved
\* call edges from the origin to it, and the functions recorded and their
\* depths stay the same when the order of a calls list changes.
DepthIsShortest ==
    (call.op = "analyze_reachability" /\ outcome.status = "Ok")
        => LET recorded == RecordedDepths(outcome.value)
           IN  /\ \A e \in recorded :
                      /\ e[1] \in Reachable(call.function_id)
                      /\ e[2] = Distance(call.function_id, e[1])
               /\ \A g \in Reorderings(graph_input) :
                      LET o == AnalyzeReachabilityOutcome(g, call.function_id, call.options)
                      IN  /\ o.status = "Ok"
                          /\ RecordedDepths(o.value) = recorded

\* queryUsers is called by main directly and, earlier in main's calls list,
\* through handler; it is recorded at depth 1
DepthIsShortestWitness ==
    /\ call.op = "analyze_reachability"
    /\ outcome.status = "Ok"
    /\ InputFunction("main").calls = <<ResolvedCall("handler"), ResolvedCall("queryUsers")>>
    /\ InputFunction("handler").calls = <<ResolvedCall("queryUsers")>>
    /\ <<"queryUsers", 1>> \in RecordedDepths(outcome.value)
    /\ <<"handler", 1>> \in RecordedDepths(outcome.value)

\* ------------------------------------------------------------------------
\* C3
\* ------------------------------------------------------------------------

\* C3: a forward query whose origin is not a function of the graph fails
\* (with NotFound), in the in-memory and in the store-backed form.
MissingOriginFails ==
    (ForwardAnswered /\ call.function_id \notin InputIds) => outcome.status = "Err"

\* ------------------------------------------------------------------------
\* C4
\* ------------------------------------------------------------------------

\* C4: with a non-empty tables option, every reachable access and every
\* entry of the tables list is on one of the named tables.
TablesFilterHolds ==
    (call.op = "analyze_reachability" /\ outcome.status = "Ok"
        /\ IsSome(call.options.tables) /\ call.options.tables[1] # <<>>)
        => /\ \A i \in 1..Len(outcome.value.reachable_access) :
                  outcome.value.reachable_access[i].table \in Range(call.options.tables[1])
           /\ \A i \in 1..Len(outcome.value.tables) :
                  outcome.value.tables[i] \in Range(call.options.tables[1])

\* main writes orders and reaches a function that reads users; the query
\* for users has returned the read
TablesFilterWitness ==
    /\ call.op = "analyze_reachability"
    /\ outcome.status = "Ok"
    /\ call.options.tables = Some(<<"users">>)
    /\ call.function_id = "main"
    /\ InputFunction("main").data_access = <<OrdersWrite>>
    /\ outcome.value.tables = <<"users">>
    /\ Len(outcome.value.reachable_access) = 2

\* ------------------------------------------------------------------------
\* C5
\* ------------------------------------------------------------------------

\* the functions at most k resolved edges from o, for a 64-bit k
WithinI64(o, k) ==
    IF I64IsNegative(k) THEN {}
    ELSE IF k[1] > 0 \/ k[2] > 0 \/ k[3] > 0 \/ k[4] > Cardinality(InputIds)
         THEN Reachable(o)
         ELSE Within(o, k[4])

\* a depth bound k holds of a result: no access deeper than k, the deepest
\* level at most k, no more functions traversed than lie within k edges
BoundHolds(value, o, k) ==
    /\ \A i \in 1..Len(value.reachable_access) :
           NatLeqI64(value.reachable_access[i].depth, k)
    /\ NatLeqI64(value.max_depth, k)
    /\ value.functions_traversed <= Cardinality(WithinI64(o, k))

\* C5: with max_depth = k, no function more than k resolved call edges from
\* the origin is visited: every reachable access has depth <= k and the
\* max_depth of the result is <= k.
DepthBoundRespected ==
    (call.op = "analyze_reachability" /\ outcome.status = "Ok"
        /\ IsSome(call.options.max_depth))
        => BoundHolds(outcome.value, call.function_id, call.options.max_depth[1])

\* C5, for the bounds that are not negative: the statement holds, also for
\* a bound of 2^32 or more
DepthBoundRespectedFromZero ==
    (call.op = "analyze_reachability" /\ outcome.status = "Ok"
        /\ IsSome(call.options.max_depth)
        /\ ~I64IsNegative(call.options.max_depth[1]))
        => BoundHolds(outcome.value, call.function_id, call.options.max_depth[1])

\* ------------------------------------------------------------------------
\* C6
\* ------------------------------------------------------------------------

\* C6: with include_unresolved = false (or absent), an unresolved edge is a
\* dead end, also when it has candidates: every reported path is a chain of
\* resolved edges from the origin, and no function is traversed that
\* resolved edges do not reach.
UnresolvedIsDeadEnd ==
    (call.op = "analyze_reachability" /\ outcome.status = "Ok"
        /\ ~UnwrapOr(call.options.include_unresolved, FALSE))
        => /\ \A i \in 1..Len(outcome.value.reachable_access) :
                  LET path == outcome.value.reachable_access[i].path
                  IN  /\ path[1].function_id = call.function_id
                      /\ IsResolvedChain(path)
           /\ outcome.value.functions_traversed
                  <= Cardinality(Reachable(call.function_id))

\* the only call of main is unresolved and names handler and queryUsers,
\* which both access data; the query reports main alone
UnresolvedIsDeadEndWitness ==
    /\ call.op = "analyze_reachability"
    /\ outcome.status = "Ok"
    /\ call.options.include_unresolved = Some(FALSE)
    /\ call.options.max_depth = NoneOpt
    /\ call.function_id = "main"
    /\ InputFunction("main").calls = <<UnresolvedCall(<<"handler", "queryUsers">>)>>
    /\ InputFunction("handler").data_access # <<>>
    /\ outcome.value.functions_traversed = 1
    /\ Len(outcome.value.reachable_access) = 1

\* ------------------------------------------------------------------------
\* C7
\* ------------------------------------------------------------------------

\* C7: with include_unresolved = true, an unresolved call edge of a visited
\* function appears in the result as a dead-end marker, so the result
\* differs from that of the same query with include_unresolved = false;
\* it is not expanded and no access is attributed to it, so the reachable
\* accesses and functions_traversed are those of that query.
UnresolvedMarkerAppears ==
    (call.op = "analyze_reachability" /\ outcome.status = "Ok"
        /\ call.options.include_unresolved = Some(TRUE)
        /\ call.function_id \in InputIds)
        => LET off == AnalyzeReachabilityOutcome(graph_input, call.function_id,
                        [call.options EXCEPT !.include_unresolved = Some(FALSE)])
               origin == InputFunction(call.function_id)
           IN  /\ off.status = "Ok"
               /\ outcome.value.functions_traversed = off.value.functions_traversed
               /\ outcome.value.reachable_access = off.value.reachable_access
               /\ (\E i \in 1..Len(origin.calls) : ~origin.calls[i].resolved)
                      => outcome.value # off.value

\* ------------------------------------------------------------------------
\* C8
\* ------------------------------------------------------------------------

\* main -> handler -> queryUsers, and queryUsers reads users.email
ScenarioGraph ==
    JsGraph([main |-> <<ResolvedCall("handler")>>,
             handler |-> <<ResolvedCall("queryUsers")>>,
             queryUsers |-> <<>>],
            ScenarioAccess,
            {"main"})

\* C8: on the graph main -> handler -> queryUsers, forward reachability
\* from main returns one reachable access, on users, and one sensitive
\* field, email, with access_count 1 and one path, of 2 edges.
ScenarioResult ==
    (graph_input = ScenarioGraph /\ call.op = "analyze_reachability"
        /\ call.function_id = "main" /\ call.options.max_depth = NoneOpt)
        => /\ outcome.status = "Ok"
           /\ Len(outcome.value.reachable_access) = 1
           /\ outcome.value.reachable_access[1].table = "users"
           /\ outcome.value.reachable_access[1].operation = "read"
           /\ outcome.value.tables = <<"users">>
           /\ Len(outcome.value.sensitive_fields) = 1
           /\ outcome.value.sensitive_fields[1].field = "email"
           /\ outcome.value.sensitive_fields[1].access_count = 1
           /\ Len(outcome.value.sensitive_fields[1].paths) = 1
           /\ Len(outcome.value.sensitive_fields[1].paths[1]) - 1 = 2

\* the query from main on the scenario's graph, with the default options,
\* has returned
ScenarioWitness ==
    /\ graph_input = ScenarioGraph
    /\ call.op = "analyze_reachability"
    /\ call.function_id = "main"
    /\ call.options = DefaultOptions
    /\ outcome.status = "Ok"
    /\ LastNode(outcome.value.reachable_access[1].path) = "queryUsers"

\* ------------------------------------------------------------------------
\* C9
\* ------------------------------------------------------------------------

InverseOk ==
    /\ call.op = "analyze_inverse_reachability"
    /\ outcome.status = "Ok"

\* the entry points of the caller's graph
InputEntryPoints == Range(graph_input.entry_points) \cap InputIds

\* the access path p leads from entry point o to the access a, which a
\* forward query reported
PathAnswers(p, o, a) ==
    /\ p.entry_point = o
    /\ p.access_table = a.table
    /\ p.access_operation = a.operation
    /\ p.access_fields = a.fields
    /\ LastNode(p.path) = LastNode(a.path)

\* forward reachability from every entry point, with the depth bound of the
\* inverse query: each access it reports on the table has an access path
\* from that entry point in the inverse result
DualityHolds ==
    \A o \in InputEntryPoints :
      LET forward == AnalyzeReachabilityOutcome(graph_input, o,
                         [DefaultOptions EXCEPT !.max_depth = call.max_depth])
      IN  /\ forward.status = "Ok"
          /\ \A i \in 1..Len(forward.value.reachable_access) :
                 LET a == forward.value.reachable_access[i]
                 IN  a.table = call.table
                        => \E j \in 1..Len(outcome.value.access_paths) :
                              PathAnswers(outcome.value.access_paths[j], o, a)

\* C9: whenever forward reachability from an entry point o reports an
\* access on the table, inverse reachability for the table, with the same
\* depth bound, has an access path from o to that access.
ForwardInverseDuality ==
    (InverseOk /\ call.field = NoneOpt) => DualityHolds

\* C9, for the graphs in which no entry point has a resolved caller: the
\* statement holds
ForwardInverseDualityAtRoots ==
    (InverseOk /\ call.field = NoneOpt
        /\ \A e \in InputEntryPoints : \A u \in InputIds : ~ResolvedEdge(u, e))
        => DualityHolds

\* ------------------------------------------------------------------------
\* C10
\* ------------------------------------------------------------------------

\* the function id owns an access point with the table, operation and
\* fields the access path p reports
OwnsAccess(id, p) ==
    /\ id \in InputIds
    /\ \E i \in 1..Len(InputFunction(id).data_access) :
           LET a == InputFunction(id).data_access[i]
           IN  /\ a.table = p.access_table
               /\ OperationString(DataOperationOf(a.operation)) = p.access_operation
               /\ a.fields = p.access_fields

\* C10: every access path is a forward call chain: it starts at the
\* reported entry point, ends at the function that owns the reported
\* access point, and each node calls the next by a resolved edge.
AccessPathsAreCallChains ==
    InverseOk
        => \A i \in 1..Len(outcome.value.access_paths) :
              LET p == outcome.value.access_paths[i]
              IN  /\ p.path # <<>>
                  /\ p.path[1].function_id = p.entry_point
                  /\ OwnsAccess(LastNode(p.path), p)
                  /\ IsResolvedChain(p.path)

\* an access path main -> handler -> queryUsers has been returned
AccessPathsWitness ==
    /\ InverseOk
    /\ \E i \in 1..Len(outcome.value.access_paths) :
           /\ outcome.value.access_paths[i].entry_point = "main"
           /\ outcome.value.access_paths[i].path =
                  <<PathNode("main"), PathNode("handler"), PathNode("queryUsers")>>
           /\ outcome.value.access_paths[i].access_table = "orders"

\* ------------------------------------------------------------------------
\* C11
\* ------------------------------------------------------------------------

\* the function id of the caller's graph has an access point on the table
\* and, when a field is given, with that field
MatchesTarget(id, table, field) ==
    \E i \in 1..Len(InputFunction(id).data_access) :
        /\ InputFunction(id).data_access[i].table = table
        /\ IsSome(field) => field[1] \in Range(InputFunction(id).data_access[i].fields)

\* C11: total_accessors of an inverse result is the number of distinct
\* functions with a data access that matches the target table (and field),
\* whether or not an entry point reaches them and however many paths do.
TotalAccessorsCountsFunctions ==
    InverseOk
        => outcome.value.total_accessors =
               Cardinality({id \in InputIds : MatchesTarget(id, call.table, call.field)})

\* no function is an entry point, so no access path is returned, and the
\* two functions that read users are counted
TotalAccessorsWitness ==
    /\ InverseOk
    /\ call.table = "users"
    /\ graph_input.entry_points = <<>>
    /\ outcome.value.access_paths = <<>>
    /\ outcome.value.total_accessors = 2

\* ------------------------------------------------------------------------
\* C12
\* ------------------------------------------------------------------------

\* the call paths from e to f in the caller's graph: chains of resolved
\* edges on which no function occurs twice
CallPaths(e, f) ==
    {p \in UNION {[1..n -> InputIds] : n \in 1..Cardinality(InputIds)} :
        /\ p[1] = e
        /\ p[Len(p)] = f
        /\ \A i, j \in 1..Len(p) : i # j => p[i] # p[j]
        /\ \A i \in 1..(Len(p) - 1) : ResolvedEdge(p[i], p[i + 1])}

\* the inverse result has the path p, for the access point a of its last
\* function
PathReported(p, a) ==
    \E j \in 1..Len(outcome.value.access_paths) :
        LET r == outcome.value.access_paths[j]
        IN  /\ r.entry_point = p[1]
            /\ r.path = [i \in 1..Len(p) |-> PathNode(p[i])]
            /\ r.access_table = a.table
            /\ r.access_operation = OperationString(DataOperationOf(a.operation))
            /\ r.access_fields = a.fields

\* no access path is reported twice, and of two different call paths from
\* one entry point to one matching access point both are reported
EachPathOnce ==
    /\ \A i, j \in 1..Len(outcome.value.access_paths) :
           i # j => outcome.value.access_paths[i] # outcome.value.access_paths[j]
    /\ \A e \in InputEntryPoints : \A f \in InputIds :
           \A p, q \in CallPaths(e, f) :
              \A k \in 1..Len(InputFunction(f).data_access) :
                 LET a == InputFunction(f).data_access[k]
                 IN  (p # q /\ a.table = call.table)
                        => PathReported(p, a) /\ PathReported(q, a)

\* C12: inverse reachability reports each distinct path exactly once: no
\* two access paths are the same, and when two different call paths lead
\* from the same entry point to the same access point, both are reported.
DistinctPathsOnce ==
    (InverseOk /\ call.field = NoneOpt /\ call.max_depth = NoneOpt) => EachPathOnce

\* C12, for the graphs in which no entry point has a resolved caller: the
\* statement holds
DistinctPathsOnceAtRoots ==
    (InverseOk /\ call.field = NoneOpt /\ call.max_depth = NoneOpt
        /\ \A e \in InputEntryPoints : \A u \in InputIds : ~ResolvedEdge(u, e))
        => EachPathOnce

\* ------------------------------------------------------------------------
\* Graphs as a caller may hand them in: the bindings take calls and indices
\* as they come
\* ------------------------------------------------------------------------

\* call sites that break the resolution invariant: resolved with a target
\* the graph does not hold, with no target, with two targets
UnsoundCalls(f) ==
    {ResolvedCall(MissingId),
     [resolved |-> TRUE, resolved_candidates |-> <<>>],
     [resolved |-> TRUE, resolved_candidates |-> OthersOf(f)]}

HandedInCallLists(f, n) == [1..n -> CallOptions(f) \cup UnsoundCalls(f)]

\* with fewer than n call sites in all
HandedInCallLayouts(n) ==
    UNION {
        {[main |-> a, handler |-> b, queryUsers |-> c] :
            a \in HandedInCallLists("main", l["main"]),
            b \in HandedInCallLists("handler", l["handler"]),
            c \in HandedInCallLists("queryUsers", l["queryUsers"])} :
        l \in {k \in CallLengths : k["main"] + k["handler"] + k["queryUsers"] < n}}

\* the index lists a caller may write next to the functions
HandedInEntryPoints == {<<"main">>, <<>>, <<"handler">>, <<"main", MissingId>>}

HandedInDataAccessors ==
    {<<"main", "handler", "queryUsers">>, <<>>, <<"queryUsers">>}

HandedInGraphInputs(n) ==
    {[JsGraph(calls, FullAccess, {"main"}) EXCEPT
         !.entry_points = entries, !.data_accessors = accessors] :
        calls \in HandedInCallLayouts(n),
        entries \in HandedInEntryPoints,
        accessors \in HandedInDataAccessors}

InitHandedIn ==
    /\ graph_input \in HandedInGraphInputs(MaxCalls)
    /\ call = NoCall
    /\ outcome = NoReturn
    /\ project = NoProject
    /\ store = EmptyStore
    /\ build = BuildIdle
    /\ observed = NoRead

NextHandedIn ==
    \/ AnalyzeReachability("main", DefaultOptions)
    \/ AnalyzeInverseReachability("users", NoneOpt, NoneOpt)

\* in-memory queries on graphs as handed in
SpecHandedIn == InitHandedIn /\ [][NextHandedIn]_vars

\* the graph the engine of an in-memory query operates on
EngineGraph == ReachCallGraph(graph_input)

InMemoryQuery == call.op \in {"analyze_reachability", "analyze_inverse_reachability"}

\* ------------------------------------------------------------------------
\* C13
\* ------------------------------------------------------------------------

\* every resolved call edge of the graph has one candidate, a key of the
\* function map
ResolutionSound(graph) ==
    \A id \in DOMAIN graph.functions :
        \A i \in 1..Len(graph.functions[id].calls) :
            LET c == graph.functions[id].calls[i]
            IN  c.resolved
                   => /\ Len(c.resolved_candidates) = 1
                      /\ c.resolved_candidates[1] \in DOMAIN graph.functions

\* C13: in the graph an engine operates on, every call edge with resolved
\* = true has exactly one id in resolved_candidates and that id is a key
\* of the function map.
ResolutionSoundness == InMemoryQuery => ResolutionSound(EngineGraph)

\* ------------------------------------------------------------------------
\* C16
\* ------------------------------------------------------------------------

\* the index lists of the graph hold the functions flagged as entry points
\* and the functions with a data access, and no other id
IndicesAgree(graph) ==
    /\ Range(graph.entry_points)
           = {id \in DOMAIN graph.functions : graph.functions[id].is_entry_point}
    /\ Range(graph.data_accessors)
           = {id \in DOMAIN graph.functions : graph.functions[id].data_access # <<>>}

\* C16: in the graph an engine operates on, also one built from a caller's
\* input, an id is in entry_points exactly when it is a function with
\* is_entry_point set, and in data_accessors exactly when it is a function
\* with a data access.
IndicesConsistent == InMemoryQuery => IndicesAgree(EngineGraph)

\* ------------------------------------------------------------------------
\* The builder (specification, section 4.1): extraction results, function
\* ids, call resolution, classification
\* ------------------------------------------------------------------------

\* the separator of the id format file:name:line
Colon == ":"

\* a start line as it is written into an id
LineString(n) == ToString(n)

\* the id of a function: file:name:line
FunctionId(file, name, start_line) ==
    file \o <<Colon>> \o name \o <<Colon, LineString(start_line)>>

\* what extraction yields for one function of a file
ExtractedFunction(name, start_line, calls, data_access, marked) ==
    [name |-> name, start_line |-> start_line, calls |-> calls,
     data_access |-> data_access, marked |-> marked]

\* a source file: its path, its module, and its extraction result (None
\* when extraction of the file fails)
SourceFile(path, module, extraction) ==
    [path |-> path, module |-> module, extraction |-> extraction]

\* the message recorded for a file whose extraction failed
ExtractionError(path) == <<"extraction failed", path>>

\* the message recorded for a batch the store did not take
StoreWriteError == <<"store write failed">>

\* the function definitions of one extracted file, with their ids
DefinitionsOfFile(file) ==
    IF ~IsSome(file.extraction) THEN <<>>
    ELSE [i \in 1..Len(file.extraction[1]) |->
            LET f == file.extraction[1][i]
            IN  [id |-> FunctionId(file.path, f.name, f.start_line),
                 name |-> f.name, file |-> file.path, module |-> file.module,
                 start_line |-> f.start_line, calls |-> f.calls,
                 data_access |-> f.data_access, marked |-> f.marked]]

\* the name table: the definitions of all files that were extracted
Definitions(files) == Concat([i \in 1..Len(files) |-> DefinitionsOfFile(files[i])])

\* the per-file errors of a build
ExtractionErrors(files) ==
    LET failed == SelectSeq(files, LAMBDA file : ~IsSome(file.extraction))
    IN  [i \in 1..Len(failed) |-> ExtractionError(failed[i].path)]

\* a mutation of RemainingCandidates: the file and the module of the caller
\* are not looked at
RemainingCandidatesProjectWide(defs, caller, callee_name) ==
    SelectSeq(defs, LAMBDA d : d.name = callee_name)

\* a mutation of RemainingCandidates: of several candidates the first is
\* picked
RemainingCandidatesFirst(defs, caller, callee_name) ==
    LET named == SelectSeq(defs, LAMBDA d : d.name = callee_name)
    IN  IF named = <<>> THEN <<>> ELSE <<named[1]>>

\* the definitions a call site may mean: those of the caller's file that
\* carry the name, else those of the caller's module, else those of the
\* whole project
RemainingCandidates(defs, caller, callee_name) ==
    LET named == SelectSeq(defs, LAMBDA d : d.name = callee_name)
        same_file == SelectSeq(named, LAMBDA d : d.file = caller.file)
        same_module == SelectSeq(named, LAMBDA d : d.module = caller.module)
    IN  IF same_file # <<>> THEN same_file
        ELSE IF same_module # <<>> THEN same_module
        ELSE named

\* call resolution of one call site: resolved when one candidate remains
ResolveCall(defs, caller, callee_name) ==
    LET remaining == RemainingCandidates(defs, caller, callee_name)
    IN  [callee_name |-> callee_name,
         resolved |-> Len(remaining) = 1,
         resolved_candidates |-> [i \in 1..Len(remaining) |-> remaining[i].id]]

ResolveCalls(defs, caller) ==
    [i \in 1..Len(caller.calls) |-> ResolveCall(defs, caller, caller.calls[i])]

\* a function is called from within the project
CalledInProject(defs, id) ==
    \E i \in 1..Len(defs) :
        \E j \in 1..Len(defs[i].calls) :
            LET c == ResolveCall(defs, defs[i], defs[i].calls[j])
            IN  c.resolved /\ c.resolved_candidates[1] = id

\* the function nodes of the graph, in the order of the name table
BuiltFunctions(defs) ==
    [i \in 1..Len(defs) |->
        [id |-> defs[i].id, name |-> defs[i].name, file |-> defs[i].file,
         start_line |-> defs[i].start_line,
         calls |-> ResolveCalls(defs, defs[i]),
         data_access |-> defs[i].data_access,
         is_entry_point |-> defs[i].marked \/ ~CalledInProject(defs, defs[i].id)]]

\* ------------------------------------------------------------------------
\* The builder's writes to the Graph Store (specification, sections 4.1
\* and 4.4) and build_call_graph (lib.rs)
\* ------------------------------------------------------------------------

\* config.resolution_batch_size.unwrap_or(50)
DefaultBatchSize == 50

\* the BuilderConfig build_call_graph makes of the caller's config
BuilderConfig(config) ==
    [root_dir |-> config.root,
     resolution_batch_size |-> UnwrapOr(config.resolution_batch_size, DefaultBatchSize)]

FunctionRow(node) ==
    [kind |-> "function", id |-> node.id, name |-> node.name, file |-> node.file,
     start_line |-> node.start_line, data_access |-> node.data_access,
     is_entry_point |-> node.is_entry_point]

CallRows(node) ==
    [i \in 1..Len(node.calls) |->
        [kind |-> "call", caller |-> node.id, position |-> i,
         callee_name |-> node.calls[i].callee_name,
         resolved |-> node.calls[i].resolved,
         resolved_candidates |-> node.calls[i].resolved_candidates]]

IndexRows(node) ==
    (IF node.is_entry_point THEN <<[kind |-> "entry_point", id |-> node.id]>> ELSE <<>>)
        \o (IF node.data_access # <<>>
            THEN <<[kind |-> "data_accessor", id |-> node.id]>> ELSE <<>>)

\* the rows of one batch: its functions, their edges, their index entries
BatchRows(nodes) ==
    [i \in 1..Len(nodes) |-> FunctionRow(nodes[i])]
        \o Concat([i \in 1..Len(nodes) |-> CallRows(nodes[i])])
        \o Concat([i \in 1..Len(nodes) |-> IndexRows(nodes[i])])

\* the function nodes in batches of resolution_batch_size
Batches(nodes, size) ==
    [b \in 1..((Len(nodes) + size - 1) \div size) |->
        BatchRows(SubSeq(nodes, (b - 1) * size + 1,
                         IF b * size < Len(nodes) THEN b * size ELSE Len(nodes)))]

\* a mutation of RolledBack: the rows written before the failure stay
RolledBackPartly(rows, tx) == rows \cup Range(tx)

\* the store after a batch failed: the rows of the batch are discarded
RolledBack(rows, tx) == rows

\* the store after a batch was committed
Committed(rows, tx) == rows \cup Range(tx)

\* the BuildResult of the builder; the elapsed time is left out
BuildResult(files, nodes, errors) ==
    LET calls == Concat([i \in 1..Len(nodes) |-> nodes[i].calls])
        resolved == SelectSeq(calls, LAMBDA c : c.resolved)
    IN  [files_processed |-> Len(files),
         total_functions |-> Len(nodes),
         total_calls |-> Len(calls),
         resolved_calls |-> Len(resolved),
         resolution_rate |-> [resolved |-> Len(resolved), of |-> Len(calls)],
         entry_points |-> Len(SelectSeq(nodes, LAMBDA n : n.is_entry_point)),
         data_accessors |-> Len(SelectSeq(nodes, LAMBDA n : n.data_access # <<>>)),
         errors |-> errors]

\* a mutation of JsBuildResult: the errors are not handed over
JsBuildResultNoErrors(result) ==
    [files_processed |-> result.files_processed,
     total_functions |-> result.total_functions,
     total_calls |-> result.total_calls,
     resolved_calls |-> result.resolved_calls,
     resolution_rate |-> result.resolution_rate,
     entry_points |-> result.entry_points,
     data_accessors |-> result.data_accessors,
     errors |-> <<>>]

\* the JsBuildResult built from the builder's result
JsBuildResult(result) ==
    [files_processed |-> result.files_processed,
     total_functions |-> result.total_functions,
     total_calls |-> result.total_calls,
     resolved_calls |-> result.resolved_calls,
     resolution_rate |-> result.resolution_rate,
     entry_points |-> result.entry_points,
     data_accessors |-> result.data_accessors,
     errors |-> result.errors]

\* build_call_graph begins: the files are extracted, the calls resolved,
\* the functions classified and laid out in batches
BuildCallGraph(config) ==
    /\ call = NoCall
    /\ build = BuildIdle
    /\ LET rust_config == BuilderConfig(config)
           defs == Definitions(project)
           nodes == BuiltFunctions(defs)
       IN  build' = [phase |-> "writing",
                     functions |-> nodes,
                     batches |-> Batches(nodes, rust_config.resolution_batch_size),
                     batch |-> 1,
                     tx |-> <<>>,
                     errors |-> ExtractionErrors(project),
                     write_failed |-> FALSE,
                     rows_lost |-> 0]
    /\ call' = [op |-> "build_call_graph", config |-> config]
    /\ UNCHANGED <<graph_input, outcome, project, store, observed>>

Writing == build.phase = "writing" /\ build.batch <= Len(build.batches)

\* one row of the current batch is written inside its transaction
WriteRow ==
    /\ Writing
    /\ Len(build.tx) < Len(build.batches[build.batch])
    /\ build' = [build EXCEPT !.tx = Append(build.tx,
                     build.batches[build.batch][Len(build.tx) + 1])]
    /\ UNCHANGED <<graph_input, call, outcome, project, store, observed>>

\* all rows of the current batch are written: the batch is committed
CommitBatch ==
    /\ Writing
    /\ Len(build.tx) = Len(build.batches[build.batch])
    /\ store' = Committed(store, build.tx)
    /\ build' = [build EXCEPT !.batch = build.batch + 1, !.tx = <<>>]
    /\ UNCHANGED <<graph_input, call, outcome, project, observed>>

\* the store fails at some point of the current batch: the batch is rolled
\* back and reported, the build ends and build_call_graph returns
WriteFails ==
    /\ Writing
    /\ store' = RolledBack(store, build.tx)
    /\ LET errors == Append(build.errors, StoreWriteError)
       IN  /\ build' = [build EXCEPT !.phase = "done", !.tx = <<>>,
                                     !.errors = errors, !.write_failed = TRUE,
                                     !.rows_lost = Len(build.tx)]
           /\ outcome' = Ok(JsBuildResult(BuildResult(project, build.functions, errors)))
    /\ UNCHANGED <<graph_input, call, project, observed>>

\* every batch is committed: build_call_graph returns
FinishBuild ==
    /\ build.phase = "writing"
    /\ build.batch > Len(build.batches)
    /\ build' = [build EXCEPT !.phase = "done"]
    /\ outcome' = Ok(JsBuildResult(BuildResult(project, build.functions, build.errors)))
    /\ UNCHANGED <<graph_input, call, project, store, observed>>

\* ------------------------------------------------------------------------
\* Function ids: projects whose paths and names hold ':'
\* ------------------------------------------------------------------------

\* the number of pieces of a path or name
MaxPieces == 3

\* the paths and names: the pieces are the word a and ':', and no two words
\* are neighbours (they would be one piece)
IdStrings ==
    {t \in UNION {[1..n -> {"a", Colon}] : n \in 1..MaxPieces} :
        \A i \in 1..(Len(t) - 1) : t[i] = Colon \/ t[i + 1] = Colon}

IdFunctions ==
    {ExtractedFunction(name, line, <<>>, <<>>, FALSE) : name \in IdStrings, line \in {1, 2}}

\* two functions with different (file, name, start line): in two files, or
\* in one
IdProject(p, q, f, g) ==
    IF p = q
    THEN <<SourceFile(p, "m", Some(<<f, g>>))>>
    ELSE <<SourceFile(p, "m", Some(<<f>>)), SourceFile(q, "m", Some(<<g>>))>>

DefaultBuildConfig ==
    [root |-> "/project", patterns |-> <<"**/*">>, resolution_batch_size |-> NoneOpt]

InitIds ==
    /\ graph_input = <<>>
    /\ call = NoCall
    /\ outcome = NoReturn
    /\ \E p \in IdStrings, q \in IdStrings, f \in IdFunctions, g \in IdFunctions :
          /\ p = q => f # g
          /\ project = IdProject(p, q, f, g)
    /\ store = EmptyStore
    /\ build = BuildIdle
    /\ observed = NoRead

NextIds == BuildCallGraph(DefaultBuildConfig)

\* the builder's ids for two functions
SpecIds == InitIds /\ [][NextIds]_vars

\* ------------------------------------------------------------------------
\* C17
\* ------------------------------------------------------------------------

\* C17: the id is a function of (file, name, start line), and two
\* functions of a project that differ in file, name or start line have
\* different ids, also when a path or a name holds ':'.
IdsInjective ==
    build.phase = "writing"
        => \A i, j \in 1..Len(build.functions) :
              LET f == build.functions[i]
                  g == build.functions[j]
              IN  /\ f.id = FunctionId(f.file, f.name, f.start_line)
                  /\ <<f.file, f.name, f.start_line>> # <<g.file, g.name, g.start_line>>
                         => f.id # g.id

\* C17, for names without ':': the statement holds, whatever the paths
IdsInjectivePlainNames ==
    (build.phase = "writing"
        /\ \A i \in 1..Len(build.functions) :
               Colon \notin Range(build.functions[i].name))
        => \A i, j \in 1..Len(build.functions) :
              LET f == build.functions[i]
                  g == build.functions[j]
              IN  <<f.file, f.name, f.start_line>> # <<g.file, g.name, g.start_line>>
                     => f.id # g.id

\* ------------------------------------------------------------------------
\* Builds: projects of three files, a.ts and b.ts in module m, c.ts in n
\* ------------------------------------------------------------------------

\* the number of functions named helper in a.ts
MaxHelpers == 2

\* the largest batch size a caller asks for
MaxBatchSize == 2

PathA == <<"a.ts">>

PathB == <<"b.ts">>

PathC == <<"c.ts">>

\* a function helper, which reads users
Helper(line, marked) == ExtractedFunction(<<"helper">>, line, <<>>, <<UsersRead>>, marked)

\* a.ts: run, which calls helper (and, in some projects, a function no file
\* defines), and k functions named helper
FileA(k, calls, extracted) ==
    SourceFile(PathA, "m",
        IF extracted
        THEN Some(<<ExtractedFunction(<<"run">>, 1, calls, <<>>, FALSE)>>
                      \o [i \in 1..k |-> Helper(10 * i, FALSE)])
        ELSE NoneOpt)

\* b.ts: helper, marked as a route handler, or nothing
FileB(k, extracted) ==
    SourceFile(PathB, "m",
        IF extracted THEN Some([i \in 1..k |-> Helper(1, TRUE)]) ELSE NoneOpt)

\* c.ts: main, which calls helper, and helper or not
FileC(k, extracted) ==
    SourceFile(PathC, "n",
        IF extracted
        THEN Some(<<ExtractedFunction(<<"main">>, 1, <<<<"helper">>>>, <<>>, FALSE)>>
                      \o [i \in 1..k |-> Helper(7, FALSE)])
        ELSE NoneOpt)

BuildProjects ==
    {<<FileA(ka, calls, ea), FileB(kb, eb), FileC(kc, ec)>> :
        ka \in 0..MaxHelpers, kb \in 0..1, kc \in 0..1,
        calls \in {<<<<"helper">>>>, <<<<"helper">>, <<"absent">>>>},
        ea \in BOOLEAN, eb \in BOOLEAN, ec \in BOOLEAN}

BuildConfigs ==
    {[root |-> "/project", patterns |-> <<"**/*">>, resolution_batch_size |-> size] :
        size \in {NoneOpt} \cup {Some(n) : n \in 1..MaxBatchSize}}

InitBuild ==
    /\ graph_input = <<>>
    /\ call = NoCall
    /\ outcome = NoReturn
    /\ project \in BuildProjects
    /\ store = EmptyStore
    /\ build = BuildIdle
    /\ observed = NoRead

NextBuild ==
    \/ \E config \in BuildConfigs : BuildCallGraph(config)
    \/ WriteRow
    \/ CommitBatch
    \/ WriteFails
    \/ FinishBuild

\* one build of a project into an empty store
SpecBuild == InitBuild /\ [][NextBuild]_vars

\* the build has returned, and no write to the store failed
BuildCompleted == build.phase = "done" /\ ~build.write_failed

\* the function rows, call rows and index rows of the store
StoredFunctions == {r \in store : r.kind = "function"}

StoredCalls == {r \in store : r.kind = "call"}

\* ------------------------------------------------------------------------
\* The project as its files state it, for the properties of a build
\* ------------------------------------------------------------------------

ExtractedFiles == {i \in 1..Len(project) : IsSome(project[i].extraction)}

FailedFiles == {i \in 1..Len(project) : ~IsSome(project[i].extraction)}

\* the functions the extracted files define, as (file index, position)
SourceFunctions ==
    {<<i, k>> \in (1..Len(project)) \X (1..(MaxHelpers + 2)) :
        i \in ExtractedFiles /\ k <= Len(project[i].extraction[1])}

SourceFunction(d) == project[d[1]].extraction[1][d[2]]

SourceId(d) == FunctionId(project[d[1]].path, SourceFunction(d).name,
                          SourceFunction(d).start_line)

\* the file index of a stored row's file
FileOf(path) == CHOOSE i \in 1..Len(project) : project[i].path = path

\* the ids of the definitions a call of callee_name in the file at index i
\* is left with: those in the file itself, else in its module, else anywhere
NamedIn(callee_name, files) ==
    {SourceId(d) : d \in {e \in SourceFunctions :
                            e[1] \in files /\ SourceFunction(e).name = callee_name}}

LeftOver(callee_name, i) ==
    LET same_file == NamedIn(callee_name, {i})
        same_module == NamedIn(callee_name,
                          {j \in 1..Len(project) : project[j].module = project[i].module})
    IN  IF same_file # {} THEN same_file
        ELSE IF same_module # {} THEN same_module
        ELSE NamedIn(callee_name, 1..Len(project))

\* the file index of the caller of a stored call row
CallerFile(r) ==
    FileOf((CHOOSE f \in StoredFunctions : f.id = r.caller).file)

\* ------------------------------------------------------------------------
\* C14
\* ------------------------------------------------------------------------

\* C14: a call site left with two or more definitions gives an edge with
\* resolved = false that holds every one of them, and a call site that
\* matches no definition gives resolved = false with no candidate.
AmbiguityIsKept ==
    BuildCompleted
        => \A r \in StoredCalls :
              LET left == LeftOver(r.callee_name, CallerFile(r))
              IN  Cardinality(left) # 1
                     => /\ ~r.resolved
                        /\ Range(r.resolved_candidates) = left
                        /\ Len(r.resolved_candidates) = Cardinality(left)

\* main of c.ts calls helper, which a.ts and b.ts define and c.ts does not:
\* the edge is unresolved with two candidates; run calls a function no file
\* defines
AmbiguityWitness ==
    /\ BuildCompleted
    /\ \E r \in StoredCalls :
           /\ r.caller = FunctionId(PathC, <<"main">>, 1)
           /\ ~r.resolved
           /\ r.resolved_candidates =
                  <<FunctionId(PathA, <<"helper">>, 10), FunctionId(PathB, <<"helper">>, 1)>>
    /\ \E r \in StoredCalls :
           r.callee_name = <<"absent">> /\ ~r.resolved /\ r.resolved_candidates = <<>>

\* ------------------------------------------------------------------------
\* C15
\* ------------------------------------------------------------------------

\* the stored call row r is resolved to the one id of the set ids
ResolvedTo(r, ids) == r.resolved /\ Range(r.resolved_candidates) = ids

\* C15: resolution prefers the caller's file, then the caller's module,
\* then the project: one definition of the name in the caller's file makes
\* the edge resolve to it, whatever other files define; with none in the
\* file, one in the module does; with none in the module, the edge
\* resolves exactly when the project has one definition of the name.
PreferencesInOrder ==
    BuildCompleted
        => \A r \in StoredCalls :
              LET i == CallerFile(r)
                  same_file == NamedIn(r.callee_name, {i})
                  same_module == NamedIn(r.callee_name,
                                    {j \in 1..Len(project) :
                                        project[j].module = project[i].module})
                  anywhere == NamedIn(r.callee_name, 1..Len(project))
              IN  /\ Cardinality(same_file) = 1 => ResolvedTo(r, same_file)
                  /\ (same_file = {} /\ Cardinality(same_module) = 1)
                         => ResolvedTo(r, same_module)
                  /\ (same_file = {} /\ same_module = {})
                         => /\ r.resolved <=> Cardinality(anywhere) = 1
                            /\ r.resolved => ResolvedTo(r, anywhere)

\* helper is defined in b.ts and c.ts and not in a.ts: the call of run in
\* a.ts is resolved to the helper of b.ts, of run's module, and the call
\* of main in c.ts to the helper of c.ts, of main's file
PreferencesWitness ==
    /\ BuildCompleted
    /\ NamedIn(<<"helper">>, 1..Len(project))
           = {FunctionId(PathB, <<"helper">>, 1), FunctionId(PathC, <<"helper">>, 7)}
    /\ \E r \in StoredCalls :
           /\ r.caller = FunctionId(PathA, <<"run">>, 1)
           /\ r.callee_name = <<"helper">>
           /\ r.resolved
           /\ r.resolved_candidates = <<FunctionId(PathB, <<"helper">>, 1)>>
    /\ \E r \in StoredCalls :
           /\ r.caller = FunctionId(PathC, <<"main">>, 1)
           /\ r.resolved
           /\ r.resolved_candidates = <<FunctionId(PathC, <<"helper">>, 7)>>

\* C13, for the graphs the builder makes: every resolved edge of the store
\* has one candidate, the id of a stored function
BuiltResolutionSound ==
    BuildCompleted
        => \A r \in StoredCalls :
              r.resolved
                 => /\ Len(r.resolved_candidates) = 1
                    /\ \E f \in StoredFunctions : f.id = r.resolved_candidates[1]

\* ------------------------------------------------------------------------
\* C18
\* ------------------------------------------------------------------------

\* C18: a build in which extraction fails for some files, or for all,
\* returns a result: every failing file has one entry in the returned
\* errors and no function or edge in the store, and every function of
\* every other file is in the store.
ExtractionFailuresAreNotFatal ==
    BuildCompleted
        => /\ outcome.status = "Ok"
           /\ Len(outcome.value.errors) = Cardinality(FailedFiles)
           /\ \A i \in FailedFiles :
                  /\ Cardinality({k \in 1..Len(outcome.value.errors) :
                         outcome.value.errors[k] = ExtractionError(project[i].path)}) = 1
                  /\ \A r \in StoredFunctions : r.file # project[i].path
                  /\ \A r \in StoredCalls : \A f \in StoredFunctions :
                         f.id = r.caller => f.file # project[i].path
           /\ \A d \in SourceFunctions :
                  \E r \in StoredFunctions :
                     /\ r.id = SourceId(d)
                     /\ r.file = project[d[1]].path
                     /\ r.name = SourceFunction(d).name
                     /\ r.start_line = SourceFunction(d).start_line
           /\ outcome.value.total_functions = Cardinality(SourceFunctions)

\* extraction of a.ts and of c.ts failed and b.ts defines helper: the
\* build has returned two errors and the store holds the helper of b.ts
ExtractionFailuresWitness ==
    /\ BuildCompleted
    /\ FailedFiles = {1, 3}
    /\ outcome.status = "Ok"
    /\ outcome.value.errors = <<ExtractionError(PathA), ExtractionError(PathC)>>
    /\ {r.id : r \in StoredFunctions} = {FunctionId(PathB, <<"helper">>, 1)}

\* ------------------------------------------------------------------------
\* C19
\* ------------------------------------------------------------------------

\* C19: when the store fails to take a batch, build_call_graph fails: the
\* caller does not get an Ok result.
WriteFailureIsSurfaced ==
    (build.phase = "done" /\ build.write_failed) => outcome.status = "Err"

\* ------------------------------------------------------------------------
\* C20
\* ------------------------------------------------------------------------

\* C20: at every moment of a build, whatever batches failed and wherever
\* inside the batch, the store holds of each batch either all rows or
\* none.
BatchesAreAtomic ==
    build.phase # "idle"
        => \A b \in 1..Len(build.batches) :
              \/ Range(build.batches[b]) \cap store = {}
              \/ Range(build.batches[b]) \subseteq store

\* the first batch is committed, and the store failed inside the second
\* batch after two of its rows were written: the store holds the rows of
\* the first batch and none of the second
BatchesAtomicWitness ==
    /\ build.phase = "done"
    /\ build.write_failed
    /\ build.batch = 2
    /\ build.rows_lost = 2
    /\ Len(build.batches[2]) > 2
    /\ store = Range(build.batches[1])
    /\ store # {}


\* ------------------------------------------------------------------------
\* Readers of the Graph Store (specification, section 4.4) and
\* get_call_graph_stats (lib.rs)
\* ------------------------------------------------------------------------

RowsOfKind(rows, kind) == {r \in rows : r.kind = kind}

\* CallGraphDb::get_stats
GetStats(rows) ==
    [total_functions |-> Cardinality(RowsOfKind(rows, "function")),
     total_calls |-> Cardinality(RowsOfKind(rows, "call")),
     resolved_calls |-> Cardinality({r \in RowsOfKind(rows, "call") : r.resolved}),
     entry_points |-> Cardinality(RowsOfKind(rows, "entry_point")),
     data_accessors |-> Cardinality(RowsOfKind(rows, "data_accessor"))]

JsCallGraphStats(stats) ==
    [total_functions |-> stats.total_functions,
     total_calls |-> stats.total_calls,
     resolved_calls |-> stats.resolved_calls,
     entry_points |-> stats.entry_points,
     data_accessors |-> stats.data_accessors]

\* what the store does when a reader comes: it opens and answers, it cannot
\* be opened, or it opens and a read fails
StoreIo == {"ok", "open_fails", "read_fails"}

OpenReadonlyFailed == "Failed to open call graph database"

GetStatsFailed == "Failed to get stats"

\* the whole of get_call_graph_stats on a store that holds rows
GetCallGraphStatsOutcome(rows, io) ==
    IF io = "open_fails" THEN Err(OpenReadonlyFailed)
    ELSE IF io = "read_fails" THEN Err(GetStatsFailed)
    ELSE Ok(JsCallGraphStats(GetStats(rows)))

\* a reader asks for the stats of the project root, whatever the build does
GetCallGraphStats(root_dir, io) ==
    /\ observed' = [op |-> "get_call_graph_stats", root_dir |-> root_dir,
                    outcome |-> GetCallGraphStatsOutcome(store, io)]
    /\ UNCHANGED <<graph_input, call, outcome, project, store, build>>

ProjectRoot == "/project"

NextReaders ==
    \/ NextBuild
    \/ \E io \in StoreIo : GetCallGraphStats(ProjectRoot, io)

\* a build, and readers of the store of the same project root at any time
SpecReaders == InitBuild /\ [][NextReaders]_vars

\* ------------------------------------------------------------------------
\* get_call_graph_entry_points and get_call_graph_data_accessors (lib.rs)
\* over the Graph Store (specification, section 4.4)
\* ------------------------------------------------------------------------

\* the elements of a set in the order the store hands them out
RECURSIVE StoreOrder(_)
StoreOrder(S) ==
    IF S = {} THEN <<>>
    ELSE LET x == CHOOSE y \in S : TRUE
         IN  <<x>> \o StoreOrder(S \ {x})

\* CallGraphDb::get_entry_points
GetEntryPoints(rows) ==
    LET index == StoreOrder(RowsOfKind(rows, "entry_point"))
    IN  [i \in 1..Len(index) |-> index[i].id]

\* CallGraphDb::get_data_accessors
GetDataAccessors(rows) ==
    LET index == StoreOrder(RowsOfKind(rows, "data_accessor"))
    IN  [i \in 1..Len(index) |-> index[i].id]

\* CallGraphDb::get_function: Ok(Some(function)), Ok(None) when the store
\* holds no function of the id, or the store's error when the read fails
GetFunction(rows, id, failing) ==
    IF id \in failing THEN Err("read failed")
    ELSE LET found == {r \in RowsOfKind(rows, "function") : r.id = id}
         IN  IF found = {} THEN Ok(NoneOpt)
             ELSE LET r == CHOOSE f \in found : TRUE
                  IN  Ok(Some([id |-> r.id, name |-> r.name,
                               start_line |-> r.start_line,
                               data_access |-> r.data_access]))

\* s.split(':'): the parts between the ':' of a string, each the string of
\* its one piece, or the empty string
RECURSIVE Split(_)
Split(s) ==
    IF s = <<>> THEN << <<>> >>
    ELSE IF Head(s) = Colon THEN << <<>> >> \o Split(Tail(s))
    ELSE LET rest == Split(Tail(s))
         IN  <<<<Head(s)>> \o Head(rest)>> \o Tail(rest)

Reverse(s) == [i \in 1..Len(s) |-> s[Len(s) + 1 - i]]

\* s.rsplit(':'): the parts from the right
RSplit(s) == Reverse(Split(s))

\* id.rsplit(':').nth(2).unwrap_or(&id)
FileOfId(id) ==
    LET parts == RSplit(id)
    IN  IF Len(parts) >= 3 THEN parts[3] ELSE id

JsEntryPointInfo(func, id) ==
    [id |-> func.id, name |-> func.name, file |-> FileOfId(id),
     line |-> func.start_line]

\* the tables of the access points of a function, each once, in the order
\* the hash set hands them out: any order
TableLists(func) ==
    LET tables == {func.data_access[i].table : i \in 1..Len(func.data_access)}
    IN  {t \in [1..Cardinality(tables) -> tables] : Range(t) = tables}

JsDataAccessorInfo(func, id, tables) ==
    [id |-> func.id, name |-> func.name, file |-> FileOfId(id),
     line |-> func.start_line, tables |-> tables]

GetEntryPointsFailed == "Failed to get entry points"

GetDataAccessorsFailed == "Failed to get data accessors"

\* the ids of a list whose function the loop pushes: those for which
\* get_function is Ok(Some(..)); the others are passed over
Pushed(rows, ids, failing) ==
    SelectSeq(ids, LAMBDA id :
        LET looked_up == GetFunction(rows, id, failing)
        IN  looked_up.status = "Ok" /\ IsSome(looked_up.value))

\* what the store does when a reader comes: it cannot be opened, the read
\* of the index fails, or the reads of the functions of some ids fail
ReaderIo(rows) ==
    {[open |-> "fails", index |-> "ok", failing |-> {}],
     [open |-> "ok", index |-> "fails", failing |-> {}]}
        \cup {[open |-> "ok", index |-> "ok", failing |-> ids] :
                 ids \in SUBSET {r.id : r \in RowsOfKind(rows, "function")}}

\* the whole of get_call_graph_entry_points on a store that holds rows
GetCallGraphEntryPointsOutcome(rows, io) ==
    IF io.open = "fails" THEN Err(OpenReadonlyFailed)
    ELSE IF io.index = "fails" THEN Err(GetEntryPointsFailed)
    ELSE LET pushed == Pushed(rows, GetEntryPoints(rows), io.failing)
         IN  Ok([i \in 1..Len(pushed) |->
                   JsEntryPointInfo(GetFunction(rows, pushed[i], io.failing).value[1],
                                    pushed[i])])

\* the results get_call_graph_data_accessors may hand back on a store that
\* holds rows: one for every order of the tables of each function
GetCallGraphDataAccessorsOutcomes(rows, io) ==
    IF io.open = "fails" THEN {Err(OpenReadonlyFailed)}
    ELSE IF io.index = "fails" THEN {Err(GetDataAccessorsFailed)}
    ELSE LET pushed == Pushed(rows, GetDataAccessors(rows), io.failing)
             func(i) == GetFunction(rows, pushed[i], io.failing).value[1]
         IN  {Ok([i \in 1..Len(pushed) |-> JsDataAccessorInfo(func(i), pushed[i], tables[i])]) :
                 tables \in {t \in [1..Len(pushed) -> UNION {TableLists(func(i)) :
                                                         i \in 1..Len(pushed)}] :
                                \A i \in 1..Len(pushed) : t[i] \in TableLists(func(i))}}

GetCallGraphEntryPoints(root_dir, io) ==
    /\ call = NoCall
    /\ call' = [op |-> "get_call_graph_entry_points", root_dir |-> root_dir, io |-> io]
    /\ outcome' = GetCallGraphEntryPointsOutcome(store, io)
    /\ UNCHANGED <<graph_input, project, store, build, observed>>

GetCallGraphDataAccessors(root_dir, io) ==
    /\ call = NoCall
    /\ call' = [op |-> "get_call_graph_data_accessors", root_dir |-> root_dir, io |-> io]
    /\ outcome' \in GetCallGraphDataAccessorsOutcomes(store, io)
    /\ UNCHANGED <<graph_input, project, store, build, observed>>

\* the access points of the functions of a store
StoreAccessLists == {<<>>, <<UsersRead>>, <<UsersRead, OrdersWrite>>}

\* projects of one file whose path and whose first function's name hold
\* ':'; a second function b, which the first calls or not
StoreProjects ==
    {<<SourceFile(p, "m",
           Some(<<ExtractedFunction(name, 1, calls, access, FALSE)>> \o second))>> :
        p \in IdStrings, name \in IdStrings, access \in StoreAccessLists,
        calls \in {<<>>, <<<<"b">>>>},
        second \in {<<>>, <<ExtractedFunction(<<"b">>, 2, <<>>, <<OrdersWrite>>, FALSE)>>}}

\* the rows a build of the files leaves in the store when no write fails
BuiltStore(files) == Range(BatchRows(BuiltFunctions(Definitions(files))))

InitStore ==
    /\ graph_input = <<>>
    /\ call = NoCall
    /\ outcome = NoReturn
    /\ project \in StoreProjects
    /\ store = BuiltStore(project)
    /\ build = BuildIdle
    /\ observed = NoRead

NextStore ==
    \/ \E io \in ReaderIo(store) : GetCallGraphEntryPoints(ProjectRoot, io)
    \/ \E io \in ReaderIo(store) : GetCallGraphDataAccessors(ProjectRoot, io)

\* a store a build left, and one read of its entry points or data accessors
SpecStore == InitStore /\ [][NextStore]_vars

\* ------------------------------------------------------------------------
\* C21
\* ------------------------------------------------------------------------

\* the rows of the graph the build writes, all batches
NewSnapshot == UNION {Range(build.batches[b]) : b \in 1..Len(build.batches)}

\* C21: a reader of the store of a project root whose build writes several
\* batches gets the stats of the complete previous snapshot (here the store
\* before the build, which holds nothing) or of the complete new snapshot,
\* never those of a store that holds only some of the batches.
NoPartialGraphObserved ==
    (observed.op = "get_call_graph_stats" /\ observed.outcome.status = "Ok"
        /\ build.phase # "idle")
        => observed.outcome.value
               \in {JsCallGraphStats(GetStats(EmptyStore)),
                    JsCallGraphStats(GetStats(NewSnapshot))}


\* ------------------------------------------------------------------------
\* C22
\* ------------------------------------------------------------------------

\* the failure causes of a store-backed query
FailureCauses == {"missing", "empty", "corrupt", "not_found"}

\* missing and empty are one cause to the caller: nothing was built
CauseClass(cause) == IF cause \in {"missing", "empty"} THEN "build first" ELSE cause

\* a forward store-backed query that meets the cause
QueryWithCause(cause) ==
    [root_dir |-> IF cause = "missing" THEN "/never-built"
                  ELSE IF cause = "empty" THEN "/empty"
                  ELSE IF cause = "corrupt" THEN "/corrupt"
                  ELSE "/built",
     function_id |-> IF cause = "not_found" THEN MissingId ELSE "main",
     options |-> DefaultOptions]

\* the failure cause the query of this state meets
CauseOfCall ==
    CHOOSE cause \in FailureCauses :
        /\ QueryWithCause(cause).root_dir = call.root_dir
        /\ cause = "not_found" <=> call.function_id \notin InputIds

HasCause ==
    /\ call.op = "analyze_reachability_sqlite"
    /\ call.root_dir = "/built" => call.function_id \notin InputIds

\* the last part of a message
Guidance(reason) == reason[Len(reason)]

\* C22: the store-backed query fails for each of the causes store missing or
\* empty, store corrupt or incompatible, and function id not found, and the
\* errors of two different causes differ.
StoreFailuresDistinguished ==
    HasCause
        => /\ outcome.status = "Err"
           /\ \A other \in FailureCauses :
                  CauseClass(other) # CauseClass(CauseOfCall)
                     => LET q == QueryWithCause(other)
                            o == AnalyzeReachabilitySqliteOutcome(graph_input, q.root_dir,
                                                                  q.function_id, q.options)
                        IN  o.status = "Err" /\ o.reason # outcome.reason

\* what holds of the two errors the code has: every store that is missing,
\* unreadable or empty is an error, the messages of the three differ, and
\* all three tell the caller to build first
StoreErrorsAllSayBuildFirst ==
    (call.op \in {"analyze_reachability_sqlite", "analyze_inverse_reachability_sqlite"}
        /\ call.root_dir # "/built")
        => /\ outcome.status = "Err"
           /\ Guidance(outcome.reason) = BuildFirst
           /\ outcome.reason \in {OpenFailed(StoreMissing), OpenFailed(StoreUnreadable),
                                  StoreEmpty}
           /\ call.root_dir = "/never-built" <=> outcome.reason = OpenFailed(StoreMissing)
           /\ call.root_dir = "/corrupt" <=> outcome.reason = OpenFailed(StoreUnreadable)


\* ------------------------------------------------------------------------
\* C23
\* ------------------------------------------------------------------------

\* the ids of the index the call of this state reads
IndexedIds ==
    IF call.op = "get_call_graph_entry_points"
    THEN {r.id : r \in RowsOfKind(store, "entry_point")}
    ELSE {r.id : r \in RowsOfKind(store, "data_accessor")}

ReadIndex == call.op \in {"get_call_graph_entry_points", "get_call_graph_data_accessors"}

\* an Ok result holds one entry for every id of the index
OneEntryPerIndexedId ==
    /\ Len(outcome.value) = Cardinality(IndexedIds)
    /\ {outcome.value[i].id : i \in 1..Len(outcome.value)} = IndexedIds

\* C23: get_call_graph_entry_points and get_call_graph_data_accessors return
\* one entry for every id of the index they read, or an error; an id whose
\* function cannot be read is never left out of an Ok result.
StoreReadFailureIsFatal ==
    ReadIndex => outcome.status = "Err" \/ OneEntryPerIndexedId

\* what holds of the code: the failures to open the store and to read the
\* index are errors, and with every function read the result is complete
IndexReadFailureIsFatal ==
    ReadIndex
        => /\ (call.io.open = "fails" \/ call.io.index = "fails") <=> outcome.status = "Err"
           /\ (outcome.status = "Ok" /\ call.io.failing \cap IndexedIds = {})
                 => OneEntryPerIndexedId


\* ------------------------------------------------------------------------
\* The two forms of a query on one graph
\* ------------------------------------------------------------------------

\* a graph without functions
EmptyGraphInput == [functions |-> <<>>, entry_points |-> <<>>, data_accessors |-> <<>>]

\* the graphs with fewer than n call sites, and the graph without functions
FormGraphInputs(n) ==
    {JsGraph(calls, FullAccess, entries) :
        calls \in {c \in CallLayouts : CallCount(c) < n}, entries \in EntryPointSets}
        \cup {EmptyGraphInput}

FormForwardQueries ==
    {[function_id |-> "main", options |-> o] :
        o \in [max_depth : {NoneOpt, Some(I64OfNat(1))}, sensitive_only : {NoneOpt, Some(TRUE)},
               tables : {NoneOpt, Some(<<"users">>)}, include_unresolved : {NoneOpt}]}
        \cup {[function_id |-> MissingId, options |-> DefaultOptions]}

FormInverseQueries ==
    {[table |-> t, field |-> f, max_depth |-> d] :
        t \in {"users", "orders"}, f \in {NoneOpt, Some("email")},
        d \in {NoneOpt, Some(I64OfNat(1))}}

\* the store of this root holds the graph of graph_input
BuiltRoot == "/built"

InitForms ==
    /\ graph_input \in FormGraphInputs(MaxCalls)
    /\ call = NoCall
    /\ outcome = NoReturn
    /\ project = NoProject
    /\ store = EmptyStore
    /\ build = BuildIdle
    /\ observed = NoRead

NextForms ==
    \/ \E q \in FormForwardQueries : AnalyzeReachability(q.function_id, q.options)
    \/ \E q \in FormForwardQueries :
           AnalyzeReachabilitySqlite(BuiltRoot, q.function_id, q.options)
    \/ \E q \in FormInverseQueries :
           AnalyzeInverseReachability(q.table, q.field, q.max_depth)
    \/ \E q \in FormInverseQueries :
           AnalyzeInverseReachabilitySqlite(BuiltRoot, q.table, q.field, q.max_depth)

\* one query, in memory or on the store that holds the same graph
SpecForms == InitForms /\ [][NextForms]_vars

\* ------------------------------------------------------------------------
\* C24
\* ------------------------------------------------------------------------

\* two lists hold the same elements, each as often
SameUpToOrder(a, b) ==
    /\ Len(a) = Len(b)
    /\ \A x \in Range(a) \cup Range(b) :
           Cardinality({i \in 1..Len(a) : a[i] = x})
               = Cardinality({i \in 1..Len(b) : b[i] = x})

SameForwardResult(v, w) ==
    /\ v.origin = w.origin
    /\ SameUpToOrder(v.reachable_access, w.reachable_access)
    /\ SameUpToOrder(v.tables, w.tables)
    /\ SameUpToOrder(v.sensitive_fields, w.sensitive_fields)
    /\ v.max_depth = w.max_depth
    /\ v.functions_traversed = w.functions_traversed

SameInverseResult(v, w) ==
    /\ v.target_table = w.target_table
    /\ v.target_field = w.target_field
    /\ SameUpToOrder(v.access_paths, w.access_paths)
    /\ SameUpToOrder(v.entry_points, w.entry_points)
    /\ v.total_accessors = w.total_accessors

\* what the other form of the query of this state hands back on the same
\* graph
OtherFormOutcome ==
    CASE call.op = "analyze_reachability" ->
             AnalyzeReachabilitySqliteOutcome(graph_input, BuiltRoot,
                                              call.function_id, call.options)
      [] call.op = "analyze_reachability_sqlite" ->
             AnalyzeReachabilityOutcome(graph_input, call.function_id, call.options)
      [] call.op = "analyze_inverse_reachability" ->
             AnalyzeInverseReachabilitySqliteOutcome(graph_input, BuiltRoot, call.table,
                                                     call.field, call.max_depth)
      [] call.op = "analyze_inverse_reachability_sqlite" ->
             AnalyzeInverseReachabilityOutcome(graph_input, call.table, call.field,
                                               call.max_depth)

Forward == call.op \in {"analyze_reachability", "analyze_reachability_sqlite"}

FormsAgree ==
    LET other == OtherFormOutcome
    IN  /\ outcome.status = "Ok"
        /\ other.status = "Ok"
        /\ IF Forward THEN SameForwardResult(outcome.value, other.value)
           ELSE SameInverseResult(outcome.value, other.value)

PathFunctionOrder == FunctionOrder \o <<"auditLog">>

PathFunctionIds == Range(PathFunctionOrder)

\* every function accesses data; handler, queryUsers and auditLog read the
\* sensitive field email of users
PathAccess ==
    [main |-> <<OrdersWrite>>, handler |-> <<UsersRead>>,
     queryUsers |-> <<UsersRead, OrdersUpsert>>, auditLog |-> <<UsersRead>>]

\* the resolved calls of f to the other functions
PathCallLists(f, n) == [1..n -> {ResolvedCall(t) : t \in PathFunctionIds \ {f}}]

\* every assignment of resolved calls with at most n call sites in all
PathCallLayouts(n) ==
    UNION {
        {[main |-> a, handler |-> b, queryUsers |-> c, auditLog |-> d] :
            a \in PathCallLists("main", l["main"]),
            b \in PathCallLists("handler", l["handler"]),
            c \in PathCallLists("queryUsers", l["queryUsers"]),
            d \in PathCallLists("auditLog", l["auditLog"])} :
        l \in {k \in [PathFunctionIds -> 0..n] :
                  k["main"] + k["handler"] + k["queryUsers"] + k["auditLog"] <= n}}

PathGraph(calls) ==
    LET fs == [i \in 1..Len(PathFunctionOrder) |->
                 JsFunction(PathFunctionOrder[i], calls[PathFunctionOrder[i]],
                            PathAccess[PathFunctionOrder[i]],
                            PathFunctionOrder[i] = "main")]
    IN  [functions |-> fs,
         entry_points |-> EntryPointsOf(fs),
         data_accessors |-> DataAccessorsOf(fs)]

\* forward queries from main without filters: unbounded, and bounded
PathQueries ==
    {[function_id |-> "main",
      options |-> [DefaultOptions EXCEPT !.max_depth = d]] :
        d \in {NoneOpt} \cup {Some(I64OfNat(k)) : k \in 1..(MaxDepthArg + 1)}}

InitPaths ==
    /\ \E calls \in PathCallLayouts(MaxCalls + 1) : graph_input = PathGraph(calls)
    /\ call = NoCall
    /\ outcome = NoReturn
    /\ project = NoProject
    /\ store = EmptyStore
    /\ build = BuildIdle
    /\ observed = NoRead

NextPaths == \E q \in PathQueries : AnalyzeReachability(q.function_id, q.options)

\* forward queries on the graphs of four functions
SpecPaths == InitPaths /\ [][NextPaths]_vars


\* ------------------------------------------------------------------------
\* C25
\* ------------------------------------------------------------------------

\* a forward query without filters was answered
UnfilteredAnswered ==
    /\ call.op = "analyze_reachability"
    /\ outcome.status = "Ok"
    /\ call.function_id \in InputIds
    /\ call.options.tables = NoneOpt
    /\ call.options.sensitive_only # Some(TRUE)
    /\ call.options.include_unresolved # Some(TRUE)
    /\ IsSome(call.options.max_depth) => ~I64IsNegative(call.options.max_depth[1])

\* the functions the depth bound of the query admits
InBound(o) ==
    IF IsSome(call.options.max_depth)
    THEN WithinI64(o, call.options.max_depth[1])
    ELSE Reachable(o)

\* the entries of reachable_access that end at f
EntriesOf(f) ==
    {i \in 1..Len(outcome.value.reachable_access) :
        LastNode(outcome.value.reachable_access[i].path) = f}

\* the access point a of the caller's graph is what the entry e reports
ReportsAccess(e, a) ==
    /\ e.table = a.table
    /\ e.fields = a.fields
    /\ e.operation = OperationString(ReachDataAccessPoint(a).operation)

\* C25: every access point of every function the query reaches is in
\* reachable_access exactly once, all entries of one function carry one and
\* the same path, a shortest chain of resolved calls from the origin, and no
\* other function has an entry; also when the function is reachable over
\* several equally short paths or lies on a cycle.
EachAccessPointOnce ==
    UnfilteredAnswered =>
        \A f \in InputIds :
            LET entries == EntriesOf(f)
                access == InputFunction(f).data_access
                ra == outcome.value.reachable_access
            IN  IF f \in InBound(call.function_id)
                THEN /\ Cardinality(entries) = Len(access)
                     /\ \A k \in 1..Len(access) :
                            Cardinality({i \in entries :
                                            ReportsAccess(ra[i], access[k])}) = 1
                     /\ \A i \in entries, j \in entries : ra[i].path = ra[j].path
                     /\ \A i \in entries :
                            /\ ra[i].path[1].function_id = call.function_id
                            /\ IsResolvedChain(ra[i].path)
                            /\ Len(ra[i].path) = Distance(call.function_id, f) + 1
                ELSE entries = {}

\* main calls handler and auditLog and both call queryUsers: two equally
\* short paths lead to queryUsers, and its two access points are reported
\* once each
EachAccessPointOnceWitness ==
    /\ UnfilteredAnswered
    /\ call.options.max_depth = NoneOpt
    /\ ResolvedEdge("main", "handler")
    /\ ResolvedEdge("main", "auditLog")
    /\ ResolvedEdge("handler", "queryUsers")
    /\ ResolvedEdge("auditLog", "queryUsers")
    /\ Cardinality(EntriesOf("queryUsers")) = 2
    /\ Len(outcome.value.reachable_access) = 5
    /\ outcome.value.functions_traversed = 4


\* ------------------------------------------------------------------------
\* C26
\* ------------------------------------------------------------------------

IdsOf(path) == [i \in 1..Len(path) |-> path[i].function_id]

\* the functions that read the sensitive field email of users
EmailReaders ==
    {f \in InputIds :
        \E k \in 1..Len(InputFunction(f).data_access) :
            LET a == InputFunction(f).data_access[k]
            IN  a.table = "users" /\ "email" \in Range(a.fields)}

\* the entries of sensitive_fields for email of users
EmailEntries ==
    {i \in 1..Len(outcome.value.sensitive_fields) :
        /\ outcome.value.sensitive_fields[i].field = "email"
        /\ outcome.value.sensitive_fields[i].table = Some("users")}

ListedPaths(i) == {IdsOf(p) : p \in Range(outcome.value.sensitive_fields[i].paths)}

\* a path of ids lies within the depth bound of the query
WithinDepth(p) ==
    IsSome(call.options.max_depth) => NatLeqI64(Len(p) - 1, call.options.max_depth[1])

\* the accesses of f are in reachable_access once each
HeldOnce(f) == Cardinality(EntriesOf(f)) = Len(InputFunction(f).data_access)

VisitedFunctions == {f \in InputIds : EntriesOf(f) # {}}

RecordedPath(c) ==
    IdsOf(outcome.value.reachable_access[CHOOSE i \in EntriesOf(c) : TRUE].path)

\* the paths on which the traversal comes to a reader of email: the origin
\* itself, and the recorded path of each visited caller with the reader
\* appended
FoundPaths ==
    {p \in {Append(RecordedPath(x[1]), x[2]) : x \in VisitedFunctions \X EmailReaders} :
        /\ ResolvedEdge(p[Len(p) - 1], p[Len(p)])
        /\ WithinDepth(p)}
    \cup {<<o>> : o \in {call.function_id} \cap EmailReaders}

MaxDefinitions == 2

\* the decorators of one definition
MaxDecorators == 2

PyNames == {"get_users", "users"}

PyDecorators == {"@app.route('/users')", "@login_required"}

\* a function definition of the syntax tree: its name and the decorator
\* children of the decorated_definition around it, none when it is bare
PyDefinitions ==
    [name : PyNames,
     decorators : UNION {[1..k -> PyDecorators] : k \in 0..MaxDecorators}]

\* the syntax tree of a file, as far as the query sees it: its function
\* definitions in source order
PySources == UNION {[1..n -> PyDefinitions] : n \in 0..MaxDefinitions}

\* the row on which definition i begins, decorators included: each
\* decorator takes a row, then the def row, then one row of body
RECURSIVE StartRow(_, _)
StartRow(tree, i) ==
    IF i = 1 THEN 1
    ELSE StartRow(tree, i - 1) + Len(tree[i - 1].decorators) + 2

\* the row of the function_definition node of definition i (its def row)
DefRow(tree, i) == StartRow(tree, i) + Len(tree[i].decorators)

\* a mutation of DecoratedLines: no row is collected
DecoratedLinesNone(tree) == {}

\* the first pass: the rows of the function_definition nodes inside a
\* decorated_definition
DecoratedLines(tree) ==
    {DefRow(tree, i) : i \in {j \in 1..Len(tree) : tree[j].decorators # <<>>}}

\* the matches of function_query on definition i: the second pattern
\* matches once for every decorator child, the first pattern once for the
\* function_definition node
DecoratedMatches(tree, i) ==
    [j \in 1..Len(tree[i].decorators) |->
        [pattern |-> "decorated_function", def |-> i, decorator |-> j]]

PlainMatch(i) == [pattern |-> "function", def |-> i, decorator |-> 0]

\* the orders in which the cursor may hand out the matches, and the
\* captures of one match
MatchOrders == {"by position", "by pattern"}

CaptureOrders == {"outer node first", "outer node last"}

QueryMatches(tree, match_order) ==
    IF match_order = "by position"
    THEN Concat([i \in 1..Len(tree) |-> DecoratedMatches(tree, i) \o <<PlainMatch(i)>>])
    ELSE [i \in 1..Len(tree) |-> PlainMatch(i)]
         \o Concat([i \in 1..Len(tree) |-> DecoratedMatches(tree, i)])

\* the captures of a match
Captures(m, capture_order) ==
    LET outer == <<[capture |-> m.pattern, def |-> m.def, decorator |-> 0]>>
        inner == (IF m.pattern = "decorated_function"
                  THEN <<[capture |-> "decorator", def |-> m.def,
                          decorator |-> m.decorator]>>
                  ELSE <<>>)
                 \o <<[capture |-> "name", def |-> m.def, decorator |-> 0],
                      [capture |-> "params", def |-> m.def, decorator |-> 0]>>
    IN  IF capture_order = "outer node first" THEN outer \o inner ELSE inner \o outer

\* extract_decorators: the text of every decorator child
ExtractDecorators(node) == node.decorators

\* the locals of one iteration of the second pass, before its captures
MatchLocals ==
    [name |-> "", decorators |-> <<>>, range |-> 0,
     is_decorated |-> FALSE, inner_func_line |-> NoneOpt]

\* the match arm of one capture
ApplyCapture(tree, locals, c) ==
    IF c.capture = "name"
    THEN [locals EXCEPT !.name = tree[c.def].name]
    ELSE IF c.capture = "decorator"
    THEN [locals EXCEPT !.decorators =
            Append(locals.decorators, tree[c.def].decorators[c.decorator])]
    ELSE IF c.capture = "function"
    THEN [locals EXCEPT !.range = DefRow(tree, c.def),
                        !.inner_func_line = Some(DefRow(tree, c.def))]
    ELSE IF c.capture = "decorated_function"
    THEN [locals EXCEPT !.range = StartRow(tree, c.def),
                        !.is_decorated = TRUE,
                        !.decorators = ExtractDecorators(tree[c.def]),
                        !.inner_func_line = Some(DefRow(tree, c.def))]
    ELSE locals

RECURSIVE ApplyCaptures(_, _, _)
ApplyCaptures(tree, locals, cs) ==
    IF cs = <<>> THEN locals
    ELSE ApplyCaptures(tree, ApplyCapture(tree, locals, Head(cs)), Tail(cs))

FunctionInfo(locals) ==
    [name |-> locals.name,
     is_exported |-> TRUE,
     range |-> locals.range,
     decorators |-> locals.decorators]

\* one iteration of the second pass: a plain match on a collected row is
\* skipped, a (name, start line) processed before is skipped, anything else
\* is pushed
ProcessMatch(tree, st, m, capture_order) ==
    LET locals == ApplyCaptures(tree, MatchLocals, Captures(m, capture_order))
        key == <<locals.name, locals.range>>
    IN  IF locals.name = "" THEN st
        ELSE IF /\ ~locals.is_decorated
                /\ IsSome(locals.inner_func_line)
                /\ locals.inner_func_line[1] \in DecoratedLines(tree)
        THEN st
        ELSE IF key \in st.processed THEN st
        ELSE [processed |-> st.processed \cup {key},
              functions |-> Append(st.functions, FunctionInfo(locals))]

RECURSIVE ProcessMatches(_, _, _, _)
ProcessMatches(tree, st, ms, capture_order) ==
    IF ms = <<>> THEN st
    ELSE ProcessMatches(tree, ProcessMatch(tree, st, Head(ms), capture_order),
                        Tail(ms), capture_order)

\* result.functions after extract_functions
ExtractFunctions(tree, match_order, capture_order) ==
    ProcessMatches(tree, [processed |-> {}, functions |-> <<>>],
                   QueryMatches(tree, match_order), capture_order).functions

\* PythonParser::parse, as far as the functions go
ParsePython(match_order, capture_order) ==
    /\ call = NoCall
    /\ call' = [op |-> "parse_python", match_order |-> match_order,
                capture_order |-> capture_order]
    /\ outcome' = Ok(ExtractFunctions(project, match_order, capture_order))
    /\ UNCHANGED <<graph_input, project, store, build, observed>>

InitPython ==
    /\ graph_input = EmptyGraphInput
    /\ call = NoCall
    /\ outcome = NoReturn
    /\ project \in PySources
    /\ store = EmptyStore
    /\ build = BuildIdle
    /\ observed = NoRead

NextPython ==
    \E match_order \in MatchOrders, capture_order \in CaptureOrders :
        ParsePython(match_order, capture_order)

\* the Python extractor on one file
SpecPython == InitPython /\ [][NextPython]_vars

\* ------------------------------------------------------------------------
\* C27
\* ------------------------------------------------------------------------

Parsed == call.op = "parse_python" /\ outcome.status = "Ok"

\* the row on which the record of definition i begins
RecordRow(tree, i) ==
    IF tree[i].decorators # <<>> THEN StartRow(tree, i) ELSE DefRow(tree, i)

\* the records of definition i
RecordsOf(i) ==
    {r \in 1..Len(outcome.value) :
        /\ outcome.value[r].name = project[i].name
        /\ outcome.value[r].range = RecordRow(project, i)}

CallerMaxDepth ==
    IF call.op \in {"analyze_reachability", "analyze_reachability_sqlite"}
    THEN call.options.max_depth
    ELSE IF call.op \in {"analyze_inverse_reachability",
                         "analyze_inverse_reachability_sqlite"}
    THEN call.max_depth
    ELSE NoneOpt

\* the bound the engine is handed for the call that was made
EngineMaxDepth ==
    IF call.op \in {"analyze_reachability", "analyze_reachability_sqlite"}
    THEN ReachabilityOptions(call.options).max_depth
    ELSE InverseReachabilityOptions(call.table, call.field, call.max_depth).max_depth

\* an unsigned 32-bit value as the 64-bit integer of the same value
U32Widened(b) == <<0, 0, b[1], b[2]>>

\* C29: the depth bound the engine applies is the max_depth the caller
\* passed, for every 64-bit max_depth, negative ones and ones of 2^32 or
\* more included.
EngineBoundIsMaxDepth ==
    IsSome(CallerMaxDepth) => U32Widened(EngineMaxDepth[1]) = CallerMaxDepth[1]


\* ------------------------------------------------------------------------
\* C30
\* ------------------------------------------------------------------------

\* a list of entry points or data accessors was handed back
ListedFromStore ==
    /\ call.op \in {"get_call_graph_entry_points", "get_call_graph_data_accessors"}
    /\ outcome.status = "Ok"

\* the file of the function row of an id: the file component its id
\* file:name:line was built from
FileComponent(id) ==
    (CHOOSE r \in RowsOfKind(store, "function") : r.id = id).file

\* C30: the file reported for a function by get_call_graph_entry_points and
\* get_call_graph_data_accessors is the file component of its id
\* file:name:line, whatever ':' the file path or the function name holds.
ReportedFileIsFileOfId ==
    ListedFromStore =>
        \A i \in 1..Len(outcome.value) :
            outcome.value[i].file = FileComponent(outcome.value[i].id)

\* the file is reported rightly when neither the path nor the name holds ':'
ReportedFileOfPlainIds ==
    ListedFromStore =>
        \A i \in 1..Len(outcome.value) :
            (/\ Colon \notin Range(FileComponent(outcome.value[i].id))
             /\ Colon \notin Range(outcome.value[i].name))
                => outcome.value[i].file = FileComponent(outcome.value[i].id)

====
